---------------------------- MODULE Spec2Model ----------------------------
(***************************************************************************)
(* Digital Raitha: the rule-based AgriRecommendationEngine                 *)
(* (src/models/recommendation/engine.py), the loaders and the feature      *)
(* merger of AgriDataPreprocessor                                          *)
(* (src/models/preprocessing/data_processor.py), the realtime handlers of  *)
(* the prediction service (src/models/api/app.py), the models              *)
(* AgriYieldModel and AgriROIModel (src/models/training/model_trainer.py)  *)
(* and the retraining script (src/models/retrain_model.py).                *)
(*                                                                         *)
(* Numbers.  Python floats are modelled as exact rationals <<n, d>> in     *)
(* lowest terms with d > 0.  Inputs are carried in fixed units:            *)
(*   ph               tenths            (6.7  is 67)                       *)
(*   organic_carbon   hundredths of %   (1.2  is 120)                      *)
(*   temperature_c    whole degrees                                        *)
(*   rainfall_mm      whole millimetres                                    *)
(*   land_area_acres  a rational       (5.0  is <<5, 1>>)                  *)
(*   budget_inr       whole rupees                                         *)
(* The fields of SoilData, WeatherData and EconomicData that no operation  *)
(* of the engine reads (nitrogen, phosphorus, potassium, drainage,         *)
(* humidity, solar_radiation, labor_availability, input_cost_type) and the *)
(* location argument are left out.                                         *)
(***************************************************************************)
EXTENDS Integers, Sequences, FiniteSets, TLC

VARIABLES
    crop_suitability,           \* self.crop_suitability: dict as a sequence of <<key, rule>>
    tree_suitability,           \* self.tree_suitability: dict as a sequence of <<key, info>>
    layout_patterns,            \* self.layout_patterns:  dict as a sequence of <<key, info>>
    sustainability_tips_base,   \* self.sustainability_tips_base: list of tips
    pc,                         \* the caller: "idle" between calls, "returned" holding a result
    op,                         \* the operation called last
    args,                       \* its arguments
    ret,                        \* its return value
    kept,                       \* a call and its result the caller has kept for later
    merged_df,                  \* create_derived_features: its merged table (a local)
    yield_model,                \* the AgriYieldModel object (app.py: the global yield_model)
    roi_model,                  \* the AgriROIModel object (app.py: the global roi_model)
    disk,                       \* the saved model files: a set of <<file name, content>>
    X,                          \* predict: the feature matrix handed to the models (a local)
    main_pc,                    \* retrain_model.py: the position of main
    run,                        \* retrain_model.py: the locals of main
    model_versions,             \* Firestore: the documents of collection 'model_versions'
    printed                     \* retrain_model.py: what main has printed in this run

tables == <<crop_suitability, tree_suitability, layout_patterns, sustainability_tips_base>>
models == <<yield_model, roi_model, disk, X>>
retraining == <<main_pc, run, model_versions, printed>>
vars == <<crop_suitability, tree_suitability, layout_patterns, sustainability_tips_base,
          pc, op, args, ret, kept, merged_df,
          yield_model, roi_model, disk, X, main_pc, run, model_versions, printed>>

----------------------------------------------------------------------------
(* Exact rational arithmetic standing for Python float arithmetic.         *)

Abs(x) == IF x < 0 THEN -x ELSE x

RECURSIVE GCD(_, _)
GCD(a, b) == IF b = 0 THEN a ELSE GCD(b, a % b)

Q(n, d) ==
    LET s == IF d < 0 THEN -1 ELSE 1
        g == GCD(Abs(n), Abs(d))
    IN  <<(s * n) \div g, (s * d) \div g>>

QInt(n) == <<n, 1>>
\* sums and comparisons go through the least common denominator, which keeps
\* the intermediate products small
QAdd(a, b) ==
    LET g == GCD(a[2], b[2])
    IN  Q(a[1] * (b[2] \div g) + b[1] * (a[2] \div g), (a[2] \div g) * b[2])
QNeg(a) == <<-a[1], a[2]>>
QSub(a, b) == QAdd(a, QNeg(b))
QMul(a, b) ==
    LET g1 == GCD(Abs(a[1]), b[2])
        g2 == GCD(Abs(b[1]), a[2])
    IN  Q((a[1] \div g1) * (b[1] \div g2), (a[2] \div g2) * (b[2] \div g1))
QDiv(a, b) == QMul(a, Q(b[2], b[1]))
QLt(a, b) ==
    LET g == GCD(a[2], b[2])
    IN  a[1] * (b[2] \div g) < b[1] * (a[2] \div g)
QLe(a, b) ==
    LET g == GCD(a[2], b[2])
    IN  a[1] * (b[2] \div g) <= b[1] * (a[2] \div g)
QMin(a, b) == IF QLt(b, a) THEN b ELSE a

Zero == QInt(0)
One == QInt(1)
Half == Q(1, 2)

----------------------------------------------------------------------------
(* Python dicts keep insertion order: a dict is a sequence of <<key, value>>. *)

Keys(d) == [i \in 1..Len(d) |-> d[i][1]]
Has(d, k) == \E i \in 1..Len(d) : d[i][1] = k
Get(d, k) == d[CHOOSE i \in 1..Len(d) : d[i][1] = k][2]
Range(s) == {s[i] : i \in 1..Len(s)}

----------------------------------------------------------------------------
(* The static rule tables built by __init__.                               *)

CropRules ==
    << <<"Maize",      [ph_min |-> 55, ph_max |-> 75, temp_min |-> 15, temp_max |-> 35,
                        rainfall_min |-> 500, rainfall_max |-> 1500,
                        soil_types |-> {"Loam", "Sandy Loam"},
                        crop_type |-> "cereal"]>>,
       <<"Cowpea",     [ph_min |-> 55, ph_max |-> 70, temp_min |-> 20, temp_max |-> 35,
                        rainfall_min |-> 400, rainfall_max |-> 1200,
                        soil_types |-> {"Loam", "Sandy Loam", "Clay Loam"},
                        crop_type |-> "pulse"]>>,
       <<"Mango",      [ph_min |-> 55, ph_max |-> 75, temp_min |-> 20, temp_max |-> 40,
                        rainfall_min |-> 600, rainfall_max |-> 2500,
                        soil_types |-> {"Loam", "Sandy Loam", "Clay Loam"},
                        crop_type |-> "fruit"]>>,
       <<"Gliricidia", [ph_min |-> 50, ph_max |-> 80, temp_min |-> 15, temp_max |-> 35,
                        rainfall_min |-> 500, rainfall_max |-> 2500,
                        soil_types |-> {"Loam", "Sandy Loam", "Clay Loam", "Sandy"},
                        crop_type |-> "fiber"]>>,
       <<"Turmeric",   [ph_min |-> 45, ph_max |-> 75, temp_min |-> 20, temp_max |-> 35,
                        rainfall_min |-> 1000, rainfall_max |-> 2500,
                        soil_types |-> {"Loam", "Clay Loam"},
                        crop_type |-> "spice"]>>,
       <<"Sorghum",    [ph_min |-> 55, ph_max |-> 75, temp_min |-> 15, temp_max |-> 35,
                        rainfall_min |-> 300, rainfall_max |-> 1000,
                        soil_types |-> {"Loam", "Sandy Loam", "Clay Loam", "Sandy"},
                        crop_type |-> "cereal"]>> >>

TreeRules ==
    << <<"Mango",      [spacing |-> "10x10m", maturity_years |-> 4, yield_per_tree_kg |-> 200]>>,
       <<"Gliricidia", [spacing |-> "2x2m",   maturity_years |-> 2, yield_per_tree_kg |-> 15]>> >>

LayoutPatterns ==
    << <<"Alley Cropping",    [description |-> "Alternate rows of trees and crops",
                               spacing |-> "5-10m between tree rows"]>>,
       <<"Boundary Planting", [description |-> "Trees planted along field boundaries",
                               spacing |-> "Along perimeter"]>>,
       <<"Mixed System",      [description |-> "Trees scattered throughout the field",
                               spacing |-> "Variable based on species"]>> >>

TipsBase ==
    << "Apply compost from residues and cow dung",
       "Use drip irrigation to optimize water",
       "Rotate crops every two seasons",
       "Plant nitrogen-fixing legumes to improve soil fertility",
       "Use organic mulch to retain moisture and suppress weeds",
       "Practice intercropping to maximize land use efficiency" >>

----------------------------------------------------------------------------
(* Suitability scorer.                                                     *)

\* ph_score with the bounds excluded
ph_score_exclusive(rule, soil) ==
    IF rule.ph_min < soil.ph /\ soil.ph < rule.ph_max THEN One ELSE Half

ph_score(rule, soil) ==
    IF rule.ph_min <= soil.ph /\ soil.ph <= rule.ph_max THEN One ELSE Half

soil_type_score(rule, soil) ==
    IF soil.texture \in rule.soil_types THEN One ELSE Q(7, 10)

\* a carbon score that falls again above 1.5 per cent
oc_score_peaked(soil) ==
    IF soil.organic_carbon > 150 THEN Half ELSE QMin(One, Q(soil.organic_carbon, 200))

oc_score(soil) == QMin(One, Q(soil.organic_carbon, 200))

assess_soil_suitability(rules, soil, crop_name) ==
    IF ~Has(rules, crop_name) THEN Zero
    ELSE LET rule == Get(rules, crop_name)
         IN  QAdd(QAdd(QMul(ph_score(rule, soil), Q(3, 10)),
                       QMul(soil_type_score(rule, soil), Q(3, 10))),
                  QMul(oc_score(soil), Q(4, 10)))

temp_score(rule, weather) ==
    IF rule.temp_min <= weather.temperature_c /\ weather.temperature_c <= rule.temp_max
    THEN One ELSE Half

\* rainfall_score with the ratio above the maximum turned over
rainfall_score_inverted(rule, weather) ==
    IF weather.rainfall_mm < rule.rainfall_min
    THEN Q(weather.rainfall_mm, rule.rainfall_min)
    ELSE IF weather.rainfall_mm > rule.rainfall_max
         THEN Q(weather.rainfall_mm, rule.rainfall_max)
         ELSE One

rainfall_score(rule, weather) ==
    IF weather.rainfall_mm < rule.rainfall_min
    THEN Q(weather.rainfall_mm, rule.rainfall_min)
    ELSE IF weather.rainfall_mm > rule.rainfall_max
         THEN Q(rule.rainfall_max, weather.rainfall_mm)
         ELSE One

\* a weather scorer that gives a crop without rules the middle score
assess_weather_suitability_lenient(rules, weather, crop_name) ==
    IF ~Has(rules, crop_name) THEN Half
    ELSE LET rule == Get(rules, crop_name)
         IN  QAdd(QMul(temp_score(rule, weather), Q(6, 10)),
                  QMul(rainfall_score(rule, weather), Q(4, 10)))

assess_weather_suitability(rules, weather, crop_name) ==
    IF ~Has(rules, crop_name) THEN Zero
    ELSE LET rule == Get(rules, crop_name)
         IN  QAdd(QMul(temp_score(rule, weather), Q(6, 10)),
                  QMul(rainfall_score(rule, weather), Q(4, 10)))

combined_score(rules, soil, weather, crop_name) ==
    QDiv(QAdd(assess_soil_suitability(rules, soil, crop_name),
              assess_weather_suitability(rules, weather, crop_name)), QInt(2))


(* recommend_crops: score every crop in table order, stable sort by score  *)
(* descending (list.sort with reverse=True keeps equal keys in their       *)
(* original order), keep score > 0.5, take the first TopN.                 *)

TopN == 5
Threshold == Half

crop_scores(rules, soil, weather) ==
    [i \in 1..Len(rules) |-> <<rules[i][1], combined_score(rules, soil, weather, rules[i][1])>>]

\* x goes after every element whose score is >= its own
InsertDesc(sorted, x) ==
    LET k == Cardinality({i \in 1..Len(sorted) : QLe(x[2], sorted[i][2])})
    IN  SubSeq(sorted, 1, k) \o <<x>> \o SubSeq(sorted, k + 1, Len(sorted))

RECURSIVE SortDesc(_)
SortDesc(s) ==
    IF s = <<>> THEN <<>>
    ELSE InsertDesc(SortDesc(SubSeq(s, 1, Len(s) - 1)), s[Len(s)])

\* the filter with score >= 0.5
AtOrAboveThreshold(e) == QLe(Threshold, e[2])

AboveThreshold(e) == QLt(Threshold, e[2])

Take(s, n) == SubSeq(s, 1, IF Len(s) < n THEN Len(s) ELSE n)

recommend_crops(rules, soil, weather) ==
    Take(SelectSeq(SortDesc(crop_scores(rules, soil, weather)), AboveThreshold), TopN)

----------------------------------------------------------------------------
(* Recommendation composer.                                                *)

\* a tree list that leaves the first tree out where rain is scarce
recommend_trees_by_rainfall(trees_tbl, soil, weather) ==
    IF weather.rainfall_mm < 500 THEN Tail(trees_tbl) ELSE trees_tbl

recommend_trees(trees_tbl, soil, weather) == trees_tbl

\* a layout rule that counts the rainfall bounds 600 and 1200 in
determine_layout_inclusive(layouts, soil, weather) ==
    IF soil.texture = "Sandy" /\ weather.rainfall_mm <= 600
    THEN <<"Boundary Planting", Get(layouts, "Boundary Planting").description>>
    ELSE IF weather.rainfall_mm >= 1200
         THEN <<"Mixed System", Get(layouts, "Mixed System").description>>
         ELSE <<"Alley Cropping", Get(layouts, "Alley Cropping").description>>

determine_layout(layouts, soil, weather) ==
    IF soil.texture = "Sandy" /\ weather.rainfall_mm < 600
    THEN <<"Boundary Planting", Get(layouts, "Boundary Planting").description>>
    ELSE IF weather.rainfall_mm > 1200
         THEN <<"Mixed System", Get(layouts, "Mixed System").description>>
         ELSE <<"Alley Cropping", Get(layouts, "Alley Cropping").description>>

base_yields ==
    << <<"Maize", 4000>>, <<"Sorghum", 3000>>, <<"Cowpea", 1000>>, <<"Turmeric", 2000>> >>

DefaultBaseYield == 2500

\* dict.get(key, default)
GetOr(d, k, default) == IF Has(d, k) THEN Get(d, k) ELSE default

\* a yield estimate that takes the default base yield for every crop
estimate_yield_flat(main_crop, land_area_acres) ==
    QMul(QInt(DefaultBaseYield), land_area_acres)

estimate_yield(main_crop, land_area_acres) ==
    QMul(QInt(GetOr(base_yields, main_crop, DefaultBaseYield)), land_area_acres)

crop_prices ==
    << <<"Maize", 20>>, <<"Sorghum", 25>>, <<"Cowpea", 50>>, <<"Turmeric", 100>>,
       <<"Mango", 60>> >>

DefaultMainPrice == 25
DefaultIntercropPrice == 30
DefaultMangoPrice == 60
TreesPerAcre == 20
KgPerTree == 200

\* int(x): truncation toward zero
Trunc(q) == IF q[1] >= 0 THEN q[1] \div q[2] ELSE -((-q[1]) \div q[2])

\* the cost taken as the whole budget
total_cost_whole_budget(budget_inr) == QInt(budget_inr)

total_cost(budget_inr) == QMul(QInt(budget_inr), Q(6, 10))

\* the return as a percentage
roi_of_percent(profit, cost) ==
    IF QLt(Zero, cost) THEN QMul(QDiv(profit, cost), QInt(100)) ELSE Zero

roi_of(profit, cost) == IF QLt(Zero, cost) THEN QDiv(profit, cost) ELSE Zero

estimate_profit(main_crop, intercrop, trees, land_area_acres, budget_inr) ==
    LET main_crop_yield == estimate_yield(main_crop, land_area_acres)
        intercrop_yield == estimate_yield(intercrop, QMul(land_area_acres, Q(3, 10)))
        num_trees == Trunc(QMul(land_area_acres, QInt(TreesPerAcre)))
        tree_yield == IF "Mango" \in Range(trees) THEN num_trees * KgPerTree ELSE 0
        main_crop_income ==
            QMul(main_crop_yield, QInt(GetOr(crop_prices, main_crop, DefaultMainPrice)))
        intercrop_income ==
            QMul(intercrop_yield, QInt(GetOr(crop_prices, intercrop, DefaultIntercropPrice)))
        tree_income == QInt(tree_yield * GetOr(crop_prices, "Mango", DefaultMangoPrice))
        total_income == QAdd(QAdd(main_crop_income, intercrop_income), tree_income)
        cost == total_cost(budget_inr)
        profit == QSub(total_income, cost)
    IN  <<profit, roi_of(profit, cost)>>

TipLowCarbon == "Soil organic carbon is low. Increase compost application."
TipAcidic == "Soil is acidic. Consider liming to raise pH."
TipAlkaline == "Soil is alkaline. Add organic matter to lower pH."
TipLowRain == "Low rainfall area. Focus on drought-resistant crops and water conservation."
TipHighRain == "High rainfall area. Ensure proper drainage to prevent waterlogging."

\* tips whose conditions count the bounds in
generate_sustainability_tips_inclusive(base, soil, weather) ==
    base
    \o (IF soil.organic_carbon <= 100 THEN <<TipLowCarbon>> ELSE <<>>)
    \o (IF soil.ph <= 55 THEN <<TipAcidic>>
        ELSE IF soil.ph >= 80 THEN <<TipAlkaline>> ELSE <<>>)
    \o (IF weather.rainfall_mm <= 500 THEN <<TipLowRain>>
        ELSE IF weather.rainfall_mm >= 1500 THEN <<TipHighRain>> ELSE <<>>)

generate_sustainability_tips(base, soil, weather) ==
    base
    \o (IF soil.organic_carbon < 100 THEN <<TipLowCarbon>> ELSE <<>>)
    \o (IF soil.ph < 55 THEN <<TipAcidic>>
        ELSE IF soil.ph > 80 THEN <<TipAlkaline>> ELSE <<>>)
    \o (IF weather.rainfall_mm < 500 THEN <<TipLowRain>>
        ELSE IF weather.rainfall_mm > 1500 THEN <<TipHighRain>> ELSE <<>>)

\* the engine's list after the call, had tips been the list itself and no copy
tips_base_aliased(base, soil, weather) == generate_sustainability_tips(base, soil, weather)

\* tips = self.sustainability_tips_base.copy(): the appends go to the copy and
\* the engine's own list is what it was
tips_base_after(base, soil, weather) == base

\* the engine's list after the caller has edited the tips of a Recommendation,
\* had the Recommendation held the engine's own list
tips_base_shared_with_caller(base, edited) == edited

\* the tips of a Recommendation are the copy made by .copy(): the caller's edit
\* stays in the copy
tips_base_after_edit(base, edited) == base

\* the trees of a Recommendation are a list built by the comprehension
\* [tree[0] for ...]: the caller's edit does not reach the tree table
tree_suitability_after_edit(trees_tbl, edited) == trees_tbl

\* the main crop taken from the end of the ranking
main_crop_of_last(crop_recommendations) ==
    IF crop_recommendations = <<>> THEN "Maize"
    ELSE crop_recommendations[Len(crop_recommendations)][1]

main_crop_of(crop_recommendations) ==
    IF crop_recommendations = <<>> THEN "Maize" ELSE crop_recommendations[1][1]

\* the intercrop taken as the next candidate whatever its type
intercrop_of_next(rules, crop_recommendations) ==
    IF Len(crop_recommendations) < 2 THEN "Cowpea" ELSE crop_recommendations[2][1]

\* the intercrop taken to be the fallback whatever the candidates are
intercrop_of_fallback(rules, crop_recommendations) == "Cowpea"

intercrop_of(rules, crop_recommendations) ==
    IF crop_recommendations = <<>> THEN "Cowpea"
    ELSE LET main_crop_type == Get(rules, crop_recommendations[1][1]).crop_type
             other == {i \in 2..Len(crop_recommendations) :
                         Get(rules, crop_recommendations[i][1]).crop_type # main_crop_type}
         IN  IF other = {} THEN "Cowpea"
             ELSE crop_recommendations[CHOOSE i \in other : \A j \in other : i <= j][1]

generate_recommendation(rules, trees_tbl, layouts, base, soil, weather, budget_inr, land_area_acres) ==
    LET crop_recommendations == recommend_crops(rules, soil, weather)
        main_crop == main_crop_of(crop_recommendations)
        intercrop == intercrop_of(rules, crop_recommendations)
        trees == Keys(Take(recommend_trees(trees_tbl, soil, weather), 2))
        pr == estimate_profit(main_crop, intercrop, trees, land_area_acres, budget_inr)
    IN  [main_crop |-> main_crop,
         intercrop |-> intercrop,
         trees |-> trees,
         layout |-> determine_layout(layouts, soil, weather)[1],
         expected_yield_kg |-> estimate_yield(main_crop, land_area_acres),
         profit_estimate_inr |-> pr[1],
         roi |-> pr[2],
         sustainability_tips |-> generate_sustainability_tips(base, soil, weather)]

----------------------------------------------------------------------------
(* AgriDataPreprocessor: strings.  A str is a TLA+ string; its characters   *)
(* are its substrings of length one.                                        *)

CharAt(s, i) == SubSeq(s, i, i)

\* the characters of the names and values the tables hold, in code-point order
Alphabet == " (),-.0123456789ABCDEFGHIJKLMNOPQRSTUVWXYZ_abcdefghijklmnopqrstuvwxyz"
Ord(c) == CHOOSE i \in 1..Len(Alphabet) : CharAt(Alphabet, i) = c

\* str < str, as sorted() and groupby order their keys
RECURSIVE StrLess(_, _)
StrLess(s, t) ==
    IF t = "" THEN FALSE
    ELSE IF s = "" THEN TRUE
    ELSE IF Head(s) = Head(t) THEN StrLess(Tail(s), Tail(t))
    ELSE Ord(Head(s)) < Ord(Head(t))

Whitespace == {" "}

RECURSIVE lstrip(_)
lstrip(s) == IF s # "" /\ Head(s) \in Whitespace THEN lstrip(Tail(s)) ELSE s

RECURSIVE rstrip(_)
rstrip(s) ==
    IF s # "" /\ CharAt(s, Len(s)) \in Whitespace THEN rstrip(SubSeq(s, 1, Len(s) - 1)) ELSE s

\* str.strip()
strip(s) == rstrip(lstrip(s))

\* a replacement of the first occurrence only
replace_first(s, old, new) ==
    LET found == {i \in 1..Len(s) : CharAt(s, i) = old}
    IN  IF found = {} THEN s
        ELSE LET first == CHOOSE i \in found : \A k \in found : i <= k
             IN  SubSeq(s, 1, first - 1) \o new \o SubSeq(s, first + 1, Len(s))

\* str.replace(old, new) for a one-character old (by halves of the string)
RECURSIVE replace(_, _, _)
replace(s, old, new) ==
    IF Len(s) = 0 THEN ""
    ELSE IF Len(s) = 1 THEN (IF s = old THEN new ELSE s)
    ELSE LET half == Len(s) \div 2
         IN  replace(SubSeq(s, 1, half), old, new)
             \o replace(SubSeq(s, half + 1, Len(s)), old, new)

UpperCase == "ABCDEFGHIJKLMNOPQRSTUVWXYZ"
LowerCase == "abcdefghijklmnopqrstuvwxyz"
upper(c) ==
    IF \E i \in 1..26 : CharAt(LowerCase, i) = c
    THEN CharAt(UpperCase, CHOOSE i \in 1..26 : CharAt(LowerCase, i) = c) ELSE c
lower(c) ==
    IF \E i \in 1..26 : CharAt(UpperCase, i) = c
    THEN CharAt(LowerCase, CHOOSE i \in 1..26 : CharAt(UpperCase, i) = c) ELSE c

RECURSIVE lowered(_)
lowered(s) == IF s = "" THEN "" ELSE lower(Head(s)) \o lowered(Tail(s))

\* str.capitalize()
capitalize(s) == IF s = "" THEN "" ELSE upper(Head(s)) \o lowered(Tail(s))

----------------------------------------------------------------------------
(* The crop-name normalizer.                                               *)

standardizations ==
    << <<"Food grains (cereals) - Rice", "Rice">>,
       <<"Food grains (cereals) - Wheat", "Wheat">>,
       <<"Food grains (cereals) - Jowar", "Jowar">>,
       <<"Food grains (cereals) - Bajra", "Bajra">>,
       <<"Food grains (cereals) - Maize", "Maize">>,
       <<"Food grains (cereals) - Ragi", "Ragi">>,
       <<"Foodgrains(cereals) - Rice", "Rice">>,
       <<"Foodgrains(cereals) - Wheat", "Wheat">>,
       <<"Foodgrains(cereals) - Jowar", "Jowar">>,
       <<"Foodgrains(cereals) - Bajra", "Bajra">>,
       <<"Foodgrains(cereals) - Maize", "Maize">>,
       <<"Foodgrains(cereals) - Ragi", "Ragi">>,
       <<"Food Grains (Cereals) - Rice (000 tonnes)", "Rice">>,
       <<"Food Grains (Cereals) - Wheat (000 tonnes)", "Wheat">>,
       <<"Food Grains (Cereals) - Jowar (000 tonnes)", "Jowar">>,
       <<"Food Grains (Cereals) - Bajra (000 tonnes)", "Bajra">>,
       <<"Food Grains (Cereals) - Maize (000 tonnes)", "Maize">>,
       <<"Food Grains (Cereals) - Ragi (000 tonnes)", "Ragi">>,
       <<"Food grains(pulses) - Tur", "Tur">>,
       <<"Food grains(pulses) - Gram", "Gram">>,
       <<"Food grains(pulses) - Other Pulses", "Other Pulses">>,
       <<"Foodgrains(pulses) - Tur", "Tur">>,
       <<"Foodgrains(pulses) - Gram", "Gram">>,
       <<"Foodgrains(pulses) - Other pulses", "Other Pulses">>,
       <<"Food Grains (Pulses) - Tur (000 tonnes)", "Tur">>,
       <<"Food Grains (Pulses) - Gram (000 tonnes)", "Gram">>,
       <<"Food Grains (Pulses) - Other Pulses (000 tonnes)", "Other Pulses">> >>

\* the column labels that are no str: the int 2001, written by its digits
IntLabels == {"2001"}

\* an outcome of a call that is an exception on its way to the caller
Raise(exc) == [kind |-> "raise", exc |-> exc]

\* name.strip() of a name that is no str: AttributeError
standardize_crop_names_raises(name) == name \in IntLabels

\* The module-level copy of the normalizer (process_historical_datasets).
module_standardizations ==
    << <<"Food grains (cereals) - Rice", "Rice">>,
       <<"Food grains (cereals) - Wheat", "Wheat">>,
       <<"Food grains (cereals) - Jowar", "Jowar">>,
       <<"Food grains (cereals) - Bajra", "Bajra">>,
       <<"Food grains (cereals) - Maize", "Maize">>,
       <<"Food grains (cereals) - Ragi", "Ragi">>,
       <<"Foodgrains(cereals) - Rice", "Rice">>,
       <<"Foodgrains(cereals) - Wheat", "Wheat">>,
       <<"Foodgrains(cereals) - Jowar", "Jowar">>,
       <<"Foodgrains(cereals) - Bajra", "Bajra">>,
       <<"Foodgrains(cereals) - Maize", "Maize">>,
       <<"Foodgrains(cereals) - Ragi", "Ragi">>,
       <<"Food Grains (Cereals) - Rice (000 tonnes)", "Rice">>,
       <<"Food Grains (Cereals) - Wheat (000 tonnes)", "Wheat">>,
       <<"Food Grains (Cereals) - Jowar (000 tonnes)", "Jowar">>,
       <<"Food Grains (Cereals) - Bajra (000 tonnes)", "Bajra">>,
       <<"Food Grains (Cereals) - Maize (000 tonnes)", "Maize">>,
       <<"Food Grains (Cereals) - Ragi (000 tonnes)", "Ragi">>,
       <<"Food grains(pulses) - Tur", "Tur">>,
       <<"Food grains(pulses) - Gram", "Gram">>,
       <<"Food grains(pulses) - Other Pulses", "Other Pulses">>,
       <<"Foodgrains(pulses) - Tur", "Tur">>,
       <<"Foodgrains(pulses) - Gram", "Gram">>,
       <<"Foodgrains(pulses) - Other pulses", "Other Pulses">>,
       <<"Food Grains (Pulses) - Tur (000 tonnes)", "Tur">>,
       <<"Food Grains (Pulses) - Gram (000 tonnes)", "Gram">>,
       <<"Food Grains (Pulses) - Other Pulses (000 tonnes)", "Other Pulses">> >>

\* name.strip() of a name that is no str: AttributeError
module_standardize_crop_names_raises(name) == name \in IntLabels

module_standardize_crop_names(name) ==
    LET stripped == strip(name)
    IN  IF Has(module_standardizations, stripped)
        THEN Get(module_standardizations, stripped)
        ELSE replace(replace(replace(replace(replace(stripped,
                 " ", "_"), "-", "_"), "(", ""), ")", ""), ",", "")

\* a normalizer without the table of aliases
standardize_clean_only(name) ==
    replace(replace(replace(replace(replace(strip(name),
        " ", "_"), "-", "_"), "(", ""), ")", ""), ",", "")

standardize_crop_names(name) ==
    LET stripped == strip(name)
    IN  IF Has(standardizations, stripped)
        THEN Get(standardizations, stripped)
        ELSE replace(replace(replace(replace(replace(stripped,
                 " ", "_"), "-", "_"), "(", ""), ")", ""), ",", "")

----------------------------------------------------------------------------
(* Data frames.  A cell is a number, a str (dtype object) or NaN; a wide    *)
(* table is its column names and its rows, a row one cell per column; a     *)
(* long-form or merged table is a sequence of rows, a row a function from   *)
(* column name to value.  None stands for an absent table.                  *)

Num(q) == [kind |-> "num", val |-> q]
Str(s) == [kind |-> "str", val |-> s]
NaN == [kind |-> "nan"]
None == [kind |-> "none"]
DataFrame(columns, rows) == [kind |-> "frame", columns |-> columns, rows |-> rows]

isna(cell) == cell.kind = "nan"

Digits == "0123456789"
IsDigit(c) == \E i \in 1..10 : CharAt(Digits, i) = c
DigitValue(c) == (CHOOSE i \in 1..10 : CharAt(Digits, i) = c) - 1

RECURSIVE DigitsValue(_, _)
DigitsValue(s, acc) ==
    IF s = "" THEN acc
    ELSE IF Head(s) = "." THEN DigitsValue(Tail(s), acc)
    ELSE DigitsValue(Tail(s), 10 * acc + DigitValue(Head(s)))

RECURSIVE Pow10(_)
Pow10(n) == IF n = 0 THEN 1 ELSE 10 * Pow10(n - 1)

\* the text of a decimal number: an optional sign, digits, at most one point
IsNumberText(s) ==
    LET body == IF s # "" /\ Head(s) = "-" THEN Tail(s) ELSE s
        points == {i \in 1..Len(body) : CharAt(body, i) = "."}
    IN  /\ Cardinality(points) <= 1
        /\ Len(body) > Cardinality(points)
        /\ \A i \in (1..Len(body)) \ points : IsDigit(CharAt(body, i))

NumberOfText(s) ==
    LET negative == Head(s) = "-"
        body == IF negative THEN Tail(s) ELSE s
        points == {i \in 1..Len(body) : CharAt(body, i) = "."}
        decimals == IF points = {} THEN 0 ELSE Len(body) - (CHOOSE i \in points : TRUE)
        n == DigitsValue(body, 0)
    IN  Q(IF negative THEN -n ELSE n, Pow10(decimals))

\* a conversion that turns what is no number into 0
to_numeric_zero(cell) ==
    IF cell.kind = "str"
    THEN (IF IsNumberText(strip(cell.val)) THEN Num(NumberOfText(strip(cell.val)))
          ELSE Num(Zero))
    ELSE IF cell.kind = "nan" THEN Num(Zero) ELSE cell

\* pd.to_numeric(errors='coerce') of one cell
to_numeric(cell) ==
    IF cell.kind = "str"
    THEN (IF IsNumberText(strip(cell.val)) THEN Num(NumberOfText(strip(cell.val))) ELSE NaN)
    ELSE cell

\* the sequences of a sequence, one after the other
RECURSIVE Concat(_)
Concat(ss) == IF ss = <<>> THEN <<>> ELSE Head(ss) \o Concat(Tail(ss))

ColumnIndex(df, name) == CHOOSE j \in 1..Len(df.columns) : df.columns[j] = name

\* df.melt(id_vars=['Year'], value_vars=crop_columns, var_name='Crop', value_name=...)
melt(df, crop_columns, value_name) ==
    LET y == ColumnIndex(df, "Year")
    IN  Concat([k \in 1..Len(crop_columns) |->
                   [i \in 1..Len(df.rows) |->
                       ("Year" :> df.rows[i][y])
                       @@ ("Crop" :> df.columns[crop_columns[k]])
                       @@ (value_name :> df.rows[i][crop_columns[k]])]])

\* the columns of a long-form row that can hold NaN (Crop holds column names)
ValueColumns(row) == (DOMAIN row) \ {"Crop"}

\* the rows as they are, NaN or not
keep_all(rows) == rows

\* DataFrame.dropna(): the rows without a NaN
dropna(rows) == SelectSeq(rows, LAMBDA r : \A c \in ValueColumns(r) : ~isna(r[c]))

\* the dtype of the Year column: object when a cell of it holds a str
year_dtype(df) ==
    IF \E i \in 1..Len(df.rows) : df.rows[i][ColumnIndex(df, "Year")].kind = "str"
    THEN "object" ELSE "numeric"

\* the branch of a table with a Year column: melt, coerce, drop, normalize
long_form(df, data_type) ==
    LET crop_columns ==
            SelectSeq([j \in 1..Len(df.columns) |-> j], LAMBDA j : df.columns[j] # "Year")
        value_name == capitalize(data_type)
        melted == melt(df, crop_columns, value_name)
        numeric == [i \in 1..Len(melted) |->
                       [melted[i] EXCEPT ![value_name] = to_numeric(@)]]
        kept_rows == dropna(numeric)
    IN  IF \E i \in 1..Len(kept_rows) :
                 standardize_crop_names_raises(kept_rows[i]["Crop"])
        THEN Raise("AttributeError")
        ELSE [kind |-> "frame",
              year_dtype |-> year_dtype(df),
              rows |-> [i \in 1..Len(kept_rows) |->
                          [kept_rows[i] EXCEPT !["Crop"] = standardize_crop_names(@)]]]

\* a transformer that answers a table without Year column by an empty table
prepare_empty_without_year(df, data_type) ==
    IF df.kind = "none" THEN None
    ELSE IF \E j \in 1..Len(df.columns) : df.columns[j] = "Year"
    THEN long_form(df, data_type)
    ELSE [kind |-> "frame", year_dtype |-> "numeric", rows |-> <<>>]

prepare_crop_data_for_merging(df, data_type) ==
    IF df.kind = "none" THEN None
    ELSE IF \E j \in 1..Len(df.columns) : df.columns[j] = "Year"
    THEN long_form(df, data_type)
    ELSE None

\* two cells hold the same key value
SameValue(a, b) == a.kind = b.kind /\ (a.kind = "nan" \/ a.val = b.val)

\* pd.merge(left, right, on=["Crop", "Year"], how="inner")
merge(left, right) ==
    Concat([i \in 1..Len(left) |->
        LET matches == SelectSeq(right, LAMBDA r :
                          r["Crop"] = left[i]["Crop"] /\ SameValue(r["Year"], left[i]["Year"]))
        IN  [k \in 1..Len(matches) |-> left[i] @@ matches[k]]])

\* dict.get(key): None for a missing key
datasets_get(datasets, key) == IF key \in DOMAIN datasets THEN datasets[key] ELSE None

\* the three long-form tables create_derived_features starts from
long_forms(datasets) ==
    [area |-> prepare_crop_data_for_merging(datasets_get(datasets, "area"), "area"),
     yield |-> prepare_crop_data_for_merging(datasets_get(datasets, "yield"), "yield"),
     production |->
         prepare_crop_data_for_merging(datasets_get(datasets, "production"), "production")]

\* the first exception of the three prepare calls, made before the try block
raised_before_try(long) ==
    IF long.area.kind = "raise" THEN long.area
    ELSE IF long.yield.kind = "raise" THEN long.yield
    ELSE long.production

sufficient(long) ==
    long.area.kind # "none" /\ long.yield.kind # "none" /\ long.production.kind # "none"

\* pd.merge refuses key columns of which one holds str and the other numbers
\* (ValueError).  Tables without rows are left out: with or without the
\* exception their merge leaves no row and the output is the same.
merge_raises(left, left_dtype, right, right_dtype) ==
    /\ left # <<>> /\ right # <<>>
    /\ left_dtype # right_dtype
    /\ LET object_side == IF left_dtype = "object" THEN left ELSE right
       IN  \A i \in 1..Len(object_side) : object_side[i]["Year"].kind = "str"

\* the Year dtype of a merge result
merged_dtype(left_dtype, right_dtype) ==
    IF left_dtype = "object" \/ right_dtype = "object" THEN "object" ELSE "numeric"

\* one of the two merges of the try block raises
try_raises(long) ==
    \/ merge_raises(long.area.rows, long.area.year_dtype,
                    long.yield.rows, long.yield.year_dtype)
    \/ merge_raises(merge(long.area.rows, long.yield.rows),
                    merged_dtype(long.area.year_dtype, long.yield.year_dtype),
                    long.production.rows, long.production.year_dtype)

\* merged_df after the two merges
merged(long) == merge(merge(long.area.rows, long.yield.rows), long.production.rows)

\* a / b on two cells (NaN when either is NaN)
CellDiv(a, b) == IF a.kind = "num" /\ b.kind = "num" THEN Num(QDiv(a.val, b.val)) ELSE NaN

\* Series.mean(): the sum of the values that are not NaN over their number
RECURSIVE QSum(_)
QSum(cells) ==
    IF Len(cells) = 0 THEN Zero
    ELSE IF Len(cells) = 1 THEN cells[1].val
    ELSE LET half == Len(cells) \div 2
         IN  QAdd(QSum(SubSeq(cells, 1, half)), QSum(SubSeq(cells, half + 1, Len(cells))))
mean(cells) ==
    LET present == SelectSeq(cells, LAMBDA c : ~isna(c))
    IN  IF present = <<>> THEN NaN ELSE Num(QDiv(QSum(present), QInt(Len(present))))

\* the strings of a set in ascending order
RECURSIVE sorted(_)
sorted(S) ==
    IF S = {} THEN <<>>
    ELSE LET first == CHOOSE s \in S : \A t \in S \ {s} : StrLess(s, t)
         IN  <<first>> \o sorted(S \ {first})

\* merged_df.groupby('Crop')[['yield_per_area', 'yield_efficiency']].mean()
groupby_mean(rows) ==
    LET crops == sorted({rows[i]["Crop"] : i \in 1..Len(rows)})
    IN  [k \in 1..Len(crops) |->
            LET group == SelectSeq(rows, LAMBDA r : r["Crop"] = crops[k])
            IN  <<crops[k],
                  [yield_per_area |->
                       mean([i \in 1..Len(group) |-> group[i]["yield_per_area"]]),
                   yield_efficiency |->
                       mean([i \in 1..Len(group) |-> group[i]["yield_efficiency"]])]>>]

\* features[key] = value
Put(d, key, value) ==
    IF Has(d, key)
    THEN [i \in 1..Len(d) |-> IF d[i][1] = key THEN <<key, value>> ELSE d[i]]
    ELSE Append(d, <<key, value>>)

clean_crop(crop) == replace(replace(crop, " ", "_"), "-", "_")

RECURSIVE add_features(_, _)
add_features(features, derived_metrics) ==
    IF derived_metrics = <<>> THEN features
    ELSE LET crop == Head(derived_metrics)[1]
             metrics == Head(derived_metrics)[2]
             with_ypa == Put(features, "yield_per_area_" \o clean_crop(crop),
                             metrics.yield_per_area)
             with_ye == Put(with_ypa, "yield_efficiency_" \o clean_crop(crop),
                            metrics.yield_efficiency)
         IN  add_features(with_ye, Tail(derived_metrics))

\* merged_df[merged_df["Area"] > 0]
positive_area(rows) ==
    SelectSeq(rows, LAMBDA r : r["Area"].kind = "num" /\ QLt(Zero, r["Area"].val))

with_ratios(rows) ==
    [i \in 1..Len(rows) |->
        rows[i] @@ [yield_per_area |-> CellDiv(rows[i]["Production"], rows[i]["Area"]),
                    yield_efficiency |-> CellDiv(rows[i]["Yield"], rows[i]["Area"])]]

\* an outcome of a call that is a value handed to the caller
Returned(value) == [kind |-> "return", value |-> value]

\* the prepare calls come before the try block, so their exception leaves the
\* function; an exception of the try block is caught with features still {}
create_derived_features(datasets) ==
    LET long == long_forms(datasets)
    IN  IF \E key \in DOMAIN long : long[key].kind = "raise"
        THEN raised_before_try(long)
        ELSE IF ~sufficient(long) THEN Returned(<<>>)
        ELSE IF try_raises(long) THEN Returned(<<>>)
        ELSE LET positive == positive_area(merged(long))
             IN  IF positive # <<>>
                 THEN Returned(add_features(<<>>, groupby_mean(with_ratios(positive))))
                 ELSE Returned(<<>>)

\* the merged table the call builds (none when a table is missing)
merged_of(datasets) ==
    LET long == long_forms(datasets)
    IN  IF /\ \A key \in DOMAIN long : long[key].kind = "frame"
           /\ ~try_raises(long)
        THEN merged(long) ELSE <<>>

----------------------------------------------------------------------------
(* The arguments the operations are called with.                           *)

PhValues == {40, 55, 67, 80, 85}
CarbonValues == {-400, 50, 100, 200}
Textures == {"Loam", "Sandy", "Clay"}
TempValues == {10, 28, 40}
RainValues == {-1000, 0, 300, 500, 599, 600, 850, 1200, 1201, 1500, 1501, 3000}
BudgetValues == {-60000, 0, 60000}
MaxAcres == 5
AreaValues == {Q(a, 1) : a \in 0..MaxAcres} \cup {Q(33, 100), Q(5, 2)}
CropNames == Range(Keys(CropRules)) \cup {"Rice"}
TreeLists == {<<>>, <<"Mango", "Gliricidia">>, <<"Gliricidia">>}

\* the request of the usage example (__main__)
ExampleSoil == [ph |-> 67, organic_carbon |-> 120, texture |-> "Loam"]
ExampleWeather == [rainfall_mm |-> 850, temperature_c |-> 28]
ExampleBudget == 60000
ExampleArea == Q(5, 1)

\* whole requests: recommend_crops, recommend_trees, determine_layout,
\* generate_sustainability_tips, generate_recommendation
Soils ==
    [ph : PhValues, organic_carbon : CarbonValues, texture : Textures] \cup {ExampleSoil}
Weathers == [rainfall_mm : RainValues, temperature_c : TempValues]
\* generate_recommendation: every soil and weather with the example's budget and
\* area, and every budget and area with the example's soil and weather and with
\* a poor, dry plot; and a cool dryland plot, where the two cereals lead
PoorSoil == [ph |-> 40, organic_carbon |-> 50, texture |-> "Clay"]
DryWeather == [rainfall_mm |-> 300, temperature_c |-> 10]
DrylandSoil == [ph |-> 75, organic_carbon |-> 200, texture |-> "Loam"]
DrylandWeather == [rainfall_mm |-> 400, temperature_c |-> 15]
\* plots at the bounds of Cowpea's rule, where the pulse scores as high as
\* any other crop
PulseSoils == [ph : {55, 65, 70, 71}, organic_carbon : {120}, texture : {"Loam", "Clay Loam"}]
PulseWeathers == [rainfall_mm : {399, 400, 450, 499, 1200}, temperature_c : {19, 20, 28, 35}]
Requests ==
    {<<s, w, ExampleBudget, ExampleArea>> : s \in Soils, w \in Weathers}
    \cup {<<ExampleSoil, ExampleWeather, b, a>> : b \in BudgetValues, a \in AreaValues}
    \cup {<<PoorSoil, DryWeather, b, a>> : b \in BudgetValues, a \in AreaValues}
    \cup {<<DrylandSoil, DrylandWeather, ExampleBudget, ExampleArea>>}
    \cup {<<s, w, ExampleBudget, ExampleArea>> : s \in PulseSoils, w \in PulseWeathers}

\* the crops the single-crop scorers are asked about: the crops of the rule
\* table and names that are no key of it (another crop, a key in lower case,
\* a key with a blank, the empty name)
ScorerCrops == CropNames \cup {"Wheat", "maize", "Maize ", ""}

\* the single-crop scorers see every rule bound from both sides
ScorerSoils ==
    [ph : {40, 45, 50, 55, 67, 70, 75, 80, 85},
     organic_carbon : CarbonValues \cup {0, 120, 199, 300},
     texture : Textures \cup {"Sandy Loam", "Clay Loam"}]
ScorerWeathers ==
    [rainfall_mm : RainValues \cup {400, 1000, 2500},
     temperature_c : TempValues \cup {15, 20, 35, 45}]

NoValue == <<>>

----------------------------------------------------------------------------
(* The tables the preprocessor is called with.                             *)

MaxYears == 2
Years == [i \in 1..MaxYears |-> 2000 + i]

\* a wide table: a Year column and one column per name, a row per year
WideTable(names, CellOf(_, _)) ==
    DataFrame(<<"Year">> \o names,
              [i \in 1..MaxYears |->
                  <<Num(QInt(Years[i]))>> \o [j \in 1..Len(names) |-> CellOf(j, i)]])

\* the values of the full tables, by column j and row i; the first row of the
\* first column is the reference observation (1000, 2.5, 2500)
AreaCell(j, i) == Num(QInt((3 - j) * 500 * i))
YieldCell(j, i) == Num(Q(2 + i + 2 * j, 2))
ProductionCell(j, i) == Num(QInt(2500 * j + 3500 * (i - 1)))

WithCell(df, i, j, cell) == [df EXCEPT !.rows[i][j] = cell]
WithoutColumn(df, j) ==
    LET keep == SelectSeq([k \in 1..Len(df.columns) |-> k], LAMBDA k : k # j)
    IN  DataFrame([k \in 1..Len(keep) |-> df.columns[keep[k]]],
                  [i \in 1..Len(df.rows) |-> [k \in 1..Len(keep) |-> df.rows[i][keep[k]]]])
FirstRows(df, n) == DataFrame(df.columns, SubSeq(df.rows \o <<>>, 1, n))

WithLabel(df, j, label) == [df EXCEPT !.columns[j] = label]

\* a table with a column, all rows or all rows but the first missing, without
\* its Year column, with a row of unknown year, with an int as the label of
\* its last column; and no table
Damaged(df) ==
    {WithoutColumn(df, Len(df.columns)), WithoutColumn(df, 1), FirstRows(df, 0),
     FirstRows(df, 1), WithCell(df, 1, 1, NaN), None}
    \cup {WithLabel(df, Len(df.columns), label) : label \in IntLabels}

WithColumn(df, j, cell) == [df EXCEPT !.rows = [i \in 1..Len(df.rows) |-> [@[i] EXCEPT ![j] = cell]]]

\* what an area cell holds besides a positive number
OddAreaCells == {Num(Zero), Num(QInt(-1000)), NaN, Str("NA"), Str("1500")}

AreaTables(names) ==
    LET df == WideTable(names, AreaCell)
    IN  {df} \cup Damaged(df) \cup {WithColumn(df, 2, Num(Zero))}
        \cup {WithCell(df, 1, j, cell) : j \in 2..Len(df.columns), cell \in OddAreaCells}
YieldTables(names) ==
    LET df == WideTable(names, YieldCell)
    IN  {df} \cup Damaged(df)
        \cup {WithCell(df, 1, 2, Str("")), WithCell(df, MaxYears, Len(df.columns), NaN),
              WithColumn(df, 1, Str("2001-02"))}
ProductionTables(names) ==
    LET df == WideTable(names, ProductionCell)
    IN  {df} \cup Damaged(df)
        \cup {WithCell(df, 1, 2, Str("NA")), WithCell(df, MaxYears, Len(df.columns), NaN)}

\* the crop columns of the area, yield and production tables of one request
ColumnLayouts ==
    { << <<"Food grains (cereals) - Rice", "Food grains(pulses) - Other Pulses">>,
         <<"Foodgrains(cereals) - Rice", "Foodgrains(pulses) - Other pulses">>,
         <<"Food Grains (Cereals) - Rice (000 tonnes)",
           "Food Grains (Pulses) - Other Pulses (000 tonnes)">> >>,
      << <<"Food grains(pulses) - Other Pulses", "Other Pulses">>,
         <<"Food grains(pulses) - Other Pulses", "Other Pulses">>,
         <<"Food grains(pulses) - Other Pulses", "Other Pulses">> >>,
      << <<"Food grains (cereals) - Rice", "Foodgrains(cereals) - Rice">>,
         <<"Food grains (cereals) - Rice", "Foodgrains(cereals) - Rice">>,
         <<"Food grains (cereals) - Rice", "Foodgrains(cereals) - Rice">> >>,
      << <<"Rice", "Sugar-cane">>,
         <<" Rice ", "Sugar cane">>,
         <<"Rice", "Sugar_cane (raw, 000 tonnes)">> >> }

Datasets ==
    UNION {[area : AreaTables(l[1]), yield : YieldTables(l[2]),
            production : ProductionTables(l[3])] : l \in ColumnLayouts}
    \cup {[area |-> WideTable(l[1], AreaCell), yield |-> WideTable(l[2], YieldCell)] :
             l \in ColumnLayouts}

\* the tables of the requests, and tables without Year column that have an
\* int as a column label
WideTables ==
    UNION {AreaTables(l[1]) \cup YieldTables(l[2]) \cup ProductionTables(l[3]) :
              l \in ColumnLayouts}
    \cup {WithoutColumn(WithLabel(WideTable(l[1], AreaCell), 3, label), 1) :
             l \in ColumnLayouts, label \in IntLabels}
DataTypes == {"area", "yield", "production"}

ColumnNames ==
    UNION {Range(l[1]) \cup Range(l[2]) \cup Range(l[3]) : l \in ColumnLayouts}
    \cup Range(Keys(standardizations))
    \cup {"", "  ", " Foodgrains(cereals) - Ragi ", "Oil seeds - Groundnut (000 tonnes)",
          " Sugar-cane (raw, 000 tonnes) ", "food grains (cereals) - rice"}
    \cup IntLabels

\* ---- the raw tables of the loaders

Path(path) == [kind |-> "path", path |-> path]

\* a CSV file with the columns Year and Rice, by the texts of its Rice cells
CsvText(cells) ==
    DataFrame(<<"Year", "Rice">>,
              [i \in 1..Len(cells) |-> <<Str(IF i = 1 THEN "2001" ELSE "2002"), Str(cells[i])>>])

\* the files on disk: a full table, a table with a blank cell, a table with NA
Files ==
    << <<"area.csv", CsvText(<<"1000", "2000">>)>>,
       <<"yield.csv", CsvText(<<"", "3.0">>)>>,
       <<"production.csv", CsvText(<<"2500", "NA">>)>>,
       <<"notes.csv", CsvText(<<"2.5", "n.a.">>)>> >>

\* tables whose one crop column has a loader's keyword in its label
KeywordTable(CellOf(_, _)) == WideTable(<<"Yield of Rice">>, CellOf)

\* the column layout of the pipeline's tables: three spellings of two crops
PipelineLayout ==
    << <<"Food grains (cereals) - Rice", "Food grains(pulses) - Other Pulses">>,
       <<"Foodgrains(cereals) - Rice", "Foodgrains(pulses) - Other pulses">>,
       <<"Food Grains (Cereals) - Rice (000 tonnes)",
         "Food Grains (Pulses) - Other Pulses (000 tonnes)">> >>

RawDatasets ==
    [area : AreaTables(PipelineLayout[1]), yield : YieldTables(PipelineLayout[2]),
     production : ProductionTables(PipelineLayout[3])]
    \cup {[area |-> WideTable(PipelineLayout[1], AreaCell),
           yield |-> WideTable(PipelineLayout[2], YieldCell)]}
    \cup {[area |-> Path("area.csv"), yield |-> Path(y), production |-> Path(p)] :
             y \in {"yield.csv", "area.csv", "notes.csv", "yield_2015.csv"},
             p \in {"production.csv", "area.csv"}}
    \cup {[area |-> KeywordTable(AreaCell), yield |-> WithCell(KeywordTable(YieldCell), 1, 2, cell),
           production |-> KeywordTable(ProductionCell)] : cell \in {Str("NA"), Str("3.5"), NaN}}

RawTables ==
    AreaTables(PipelineLayout[1]) \cup YieldTables(PipelineLayout[2])
    \cup ProductionTables(PipelineLayout[3])
    \cup {Path(path) : path \in Range(Keys(Files)) \cup {"yield_2015.csv"}}
    \cup {WithCell(KeywordTable(YieldCell), 1, 2, cell) : cell \in {Str("NA"), Str("3.5"), NaN}}

\* the column labels of the raw tables and files
RawLabels ==
    UNION {Range(df.columns) : df \in {t \in RawTables : t.kind = "frame"}}
    \cup UNION {Range(text.columns) : text \in Range([i \in 1..Len(Files) |-> Files[i][2]])}

----------------------------------------------------------------------------
(* The loaders (load_area_data, load_yield_data, load_production_data) and *)
(* create_features.  A loader is given a table or the path of a CSV file;  *)
(* a CSV file is a table of texts.                                         *)

\* sub in s.lower()  of two str
in_lower(sub, s) ==
    \E i \in 1..(Len(s) - Len(sub) + 1) :
        \A k \in 1..Len(sub) : lower(CharAt(s, i + k - 1)) = CharAt(sub, k)

\* the texts pd.read_csv reads as NaN
na_values ==
    {"", "#N/A", "#N/A N/A", "#NA", "-1.#IND", "-1.#QNAN", "-NaN", "-nan", "1.#IND",
     "1.#QNAN", "<NA>", "N/A", "NA", "NULL", "NaN", "None", "n/a", "nan", "null"}

\* pd.read_csv of a file's text: a column of number texts and NaN texts is
\* numeric, any other column keeps its texts
read_csv(text) ==
    LET is_na(cell) == cell.val \in na_values
        numeric(j) == \A i \in 1..Len(text.rows) :
                         is_na(text.rows[i][j]) \/ IsNumberText(text.rows[i][j].val)
    IN  DataFrame(text.columns,
                  [i \in 1..Len(text.rows) |->
                      [j \in 1..Len(text.columns) |->
                          IF is_na(text.rows[i][j]) THEN NaN
                          ELSE IF numeric(j) THEN Num(NumberOfText(text.rows[i][j].val))
                          ELSE text.rows[i][j]]])

\* data.fillna(0)
fillna(df) ==
    DataFrame(df.columns,
              [i \in 1..Len(df.rows) |->
                  [j \in 1..Len(df.columns) |->
                      IF isna(df.rows[i][j]) THEN Num(Zero) ELSE df.rows[i][j]]])

\* keyword in col.lower(), worked out once for each label of the raw tables
keyword_labels ==
    [keyword \in DataTypes |-> {label \in RawLabels \ IntLabels : in_lower(keyword, label)}]

\* load_area_data, load_yield_data and load_production_data, which differ in
\* the keyword their numeric columns are picked by: fill the missing cells
\* with 0, then coerce the columns whose label holds the keyword (col.lower()
\* of a label that is no str: AttributeError)
load_data(data, keyword, files) ==
    IF data.kind = "none" THEN Raise("ValueError")
    ELSE IF data.kind = "path" /\ ~Has(files, data.path) THEN Raise("FileNotFoundError")
    ELSE LET df == IF data.kind = "path" THEN read_csv(Get(files, data.path)) ELSE data
             filled == fillna(df)
             coerced == [j \in 1..Len(df.columns) |-> df.columns[j] \in keyword_labels[keyword]]
         IN  IF \E j \in 1..Len(df.columns) : df.columns[j] \in IntLabels
             THEN Raise("AttributeError")
             ELSE Returned(DataFrame(filled.columns,
                     [i \in 1..Len(filled.rows) |->
                         [j \in 1..Len(filled.columns) |->
                             IF coerced[j]
                             THEN (IF isna(to_numeric(filled.rows[i][j])) THEN Num(Zero)
                                   ELSE to_numeric(filled.rows[i][j]))
                             ELSE filled.rows[i][j]]]))

load_area_data(data, files) == load_data(data, "area", files)
load_yield_data(data, files) == load_data(data, "yield", files)
load_production_data(data, files) == load_data(data, "production", files)

\* the three loaders applied to the raw tables of a request; a table the
\* request does not name is not loaded (create_features: production_data=None)
loaded(raw, files) ==
    [key \in DOMAIN raw |->
        IF key = "area" THEN load_area_data(raw[key], files)
        ELSE IF key = "yield" THEN load_yield_data(raw[key], files)
        ELSE load_production_data(raw[key], files)]

\* the datasets dict create_features packages
packaged(tables_loaded) == [key \in DOMAIN tables_loaded |-> tables_loaded[key].value]

\* pd.DataFrame([features_dict]).fillna(0)
features_row(features) ==
    [i \in 1..Len(features) |->
        <<features[i][1], IF isna(features[i][2]) THEN Num(Zero) ELSE features[i][2]>>]

\* create_features on loaded tables, with nasa_data, price_data and
\* damage_data None and no table with a 'Crop' column: the features are those
\* of create_derived_features
create_features(datasets) ==
    LET out == create_derived_features(datasets)
    IN  IF out.kind = "raise" THEN out ELSE Returned(features_row(out.value))


----------------------------------------------------------------------------
(* State machine: one engine, one caller.                                  *)

\* the global of app.py before load_models (None), an object not yet made
NoModel == [created |-> FALSE, is_trained |-> FALSE, feature_names |-> <<>>, fitted |-> <<>>]

\* the locals of main before a run
NoRun ==
    [clock |-> 0, version |-> "", db |-> FALSE, feedback_data |-> <<>>,
     training_data |-> <<>>, yield_model |-> NoModel, roi_model |-> NoModel]

Init ==
    /\ crop_suitability = CropRules
    /\ tree_suitability = TreeRules
    /\ layout_patterns = LayoutPatterns
    /\ sustainability_tips_base = TipsBase
    /\ pc = "idle"
    /\ op = "none"
    /\ args = NoValue
    /\ ret = NoValue
    /\ kept = NoValue
    /\ merged_df = NoValue
    /\ yield_model = NoModel
    /\ roi_model = NoModel
    /\ disk = {}
    /\ X = NoValue
    /\ main_pc = "start"
    /\ run = NoRun
    /\ model_versions = <<>>
    /\ printed = <<>>

Returns(name, a, r) ==
    /\ pc' = "returned"
    /\ op' = name
    /\ args' = a
    /\ ret' = r
    /\ UNCHANGED <<kept, merged_df, models, retraining>>

\* the call ends by an exception that reaches the caller
Raises(name, a) ==
    /\ pc' = "raised"
    /\ op' = name
    /\ args' = a
    /\ ret' = NoValue
    /\ UNCHANGED <<kept, merged_df, models, retraining>>

\* Each operation is called with arguments from the given sets.

AssessSoilSuitability(soils, crops) ==
    /\ pc = "idle"
    /\ \E soil \in soils, crop_name \in crops :
          Returns("assess_soil_suitability", [soil |-> soil, crop_name |-> crop_name],
                  assess_soil_suitability(crop_suitability, soil, crop_name))
    /\ UNCHANGED tables

AssessWeatherSuitability(weathers, crops) ==
    /\ pc = "idle"
    /\ \E weather \in weathers, crop_name \in crops :
          Returns("assess_weather_suitability", [weather |-> weather, crop_name |-> crop_name],
                  assess_weather_suitability(crop_suitability, weather, crop_name))
    /\ UNCHANGED tables

RecommendCrops(soils, weathers) ==
    /\ pc = "idle"
    /\ \E soil \in soils, weather \in weathers :
          Returns("recommend_crops", [soil |-> soil, weather |-> weather],
                  recommend_crops(crop_suitability, soil, weather))
    /\ UNCHANGED tables

RecommendTrees(soils, weathers) ==
    /\ pc = "idle"
    /\ \E soil \in soils, weather \in weathers :
          Returns("recommend_trees", [soil |-> soil, weather |-> weather],
                  recommend_trees(tree_suitability, soil, weather))
    /\ UNCHANGED tables

DetermineLayout(soils, weathers) ==
    /\ pc = "idle"
    /\ \E soil \in soils, weather \in weathers :
          Returns("determine_layout", [soil |-> soil, weather |-> weather],
                  determine_layout(layout_patterns, soil, weather))
    /\ UNCHANGED tables

EstimateYield(crops, areas) ==
    /\ pc = "idle"
    /\ \E crop_name \in crops, area \in areas :
          Returns("estimate_yield", [main_crop |-> crop_name, land_area_acres |-> area],
                  estimate_yield(crop_name, area))
    /\ UNCHANGED tables

EstimateProfit(crops, treeLists, areas, budgets) ==
    /\ pc = "idle"
    /\ \E main_crop \in crops, intercrop \in crops, trees \in treeLists,
          area \in areas, budget \in budgets :
          Returns("estimate_profit",
                  [main_crop |-> main_crop, intercrop |-> intercrop, trees |-> trees,
                   land_area_acres |-> area, budget_inr |-> budget],
                  estimate_profit(main_crop, intercrop, trees, area, budget))
    /\ UNCHANGED tables

GenerateSustainabilityTips(soils, weathers) ==
    /\ pc = "idle"
    /\ \E soil \in soils, weather \in weathers :
          /\ Returns("generate_sustainability_tips", [soil |-> soil, weather |-> weather],
                     generate_sustainability_tips(sustainability_tips_base, soil, weather))
          /\ sustainability_tips_base' = tips_base_after(sustainability_tips_base, soil, weather)
    /\ UNCHANGED <<crop_suitability, tree_suitability, layout_patterns, models, retraining>>

GenerateRecommendation(requests) ==
    /\ pc = "idle"
    /\ \E r \in requests :
          /\ Returns("generate_recommendation",
                     [soil |-> r[1], weather |-> r[2], budget_inr |-> r[3],
                      land_area_acres |-> r[4]],
                     generate_recommendation(crop_suitability, tree_suitability,
                                             layout_patterns, sustainability_tips_base,
                                             r[1], r[2], r[3], r[4]))
          /\ sustainability_tips_base' = tips_base_after(sustainability_tips_base, r[1], r[2])
    /\ UNCHANGED <<crop_suitability, tree_suitability, layout_patterns, models, retraining>>

\* the caller takes the result, or handles the exception, and is ready for
\* its next call
Return ==
    /\ pc \in {"returned", "raised"}
    /\ pc' = "idle"
    /\ op' = "none"
    /\ args' = NoValue
    /\ ret' = NoValue
    /\ merged_df' = NoValue
    /\ X' = NoValue
    /\ UNCHANGED <<tables, kept, yield_model, roi_model, disk, retraining>>

\* the caller holds on to the Recommendation it got, with the request it made
Keep ==
    /\ pc = "returned"
    /\ op = "generate_recommendation"
    /\ kept' = [args |-> args, ret |-> ret]
    /\ pc' = "idle"
    /\ op' = "none"
    /\ args' = NoValue
    /\ ret' = NoValue
    /\ UNCHANGED <<tables, merged_df, models, retraining>>

Next ==
    \/ AssessSoilSuitability(ScorerSoils, ScorerCrops)
    \/ AssessWeatherSuitability(ScorerWeathers, ScorerCrops)
    \/ RecommendCrops(Soils, Weathers)
    \/ RecommendTrees(Soils, Weathers)
    \/ DetermineLayout(Soils, Weathers)
    \/ EstimateYield(CropNames, AreaValues)
    \/ EstimateProfit(CropNames, TreeLists, AreaValues, BudgetValues)
    \/ GenerateSustainabilityTips(Soils, Weathers)
    \/ GenerateRecommendation(Requests)
    \/ Return

Spec == Init /\ [][Next]_vars

(* One caller asking again: every operation on a few plots, the caller      *)
(* keeping a Recommendation to compare a later one with.                    *)

RepeatSoils == {ExampleSoil, PoorSoil}
RepeatWeathers == {ExampleWeather, DryWeather}
RepeatCrops == {"Maize", "Rice"}
RepeatRequests ==
    {<<s, w, b, ExampleArea>> : s \in RepeatSoils, w \in RepeatWeathers, b \in {0, ExampleBudget}}

\* the caller appends an entry to, or removes the last entry from, the trees or
\* the sustainability_tips list of the Recommendation it got
EditReturned ==
    /\ pc = "returned"
    /\ op = "generate_recommendation"
    /\ \E field \in {"trees", "sustainability_tips"}, edit \in {"append", "pop"} :
          LET old == ret[field]
              new == IF edit = "append" THEN Append(old, "Neem")
                     ELSE SubSeq(old, 1, Len(old) - 1)
          IN  /\ edit = "pop" => old # <<>>
              /\ ret' = [ret EXCEPT ![field] = new]
              /\ sustainability_tips_base' =
                     IF field = "sustainability_tips"
                     THEN tips_base_after_edit(sustainability_tips_base, new)
                     ELSE sustainability_tips_base
              /\ tree_suitability' =
                     IF field = "trees"
                     THEN tree_suitability_after_edit(tree_suitability, new)
                     ELSE tree_suitability
    /\ op' = "edit_returned"
    /\ UNCHANGED <<crop_suitability, layout_patterns, pc, args, kept, merged_df, models, retraining>>

NextRepeat ==
    \/ AssessSoilSuitability(RepeatSoils, RepeatCrops)
    \/ AssessWeatherSuitability(RepeatWeathers, RepeatCrops)
    \/ RecommendCrops(RepeatSoils, RepeatWeathers)
    \/ RecommendTrees(RepeatSoils, RepeatWeathers)
    \/ DetermineLayout(RepeatSoils, RepeatWeathers)
    \/ EstimateYield(RepeatCrops, {ExampleArea})
    \/ EstimateProfit(RepeatCrops, {<<"Mango", "Gliricidia">>}, {ExampleArea}, {ExampleBudget})
    \/ GenerateSustainabilityTips(RepeatSoils, RepeatWeathers)
    \/ GenerateRecommendation(RepeatRequests)
    \/ EditReturned
    \/ Return
    \/ Keep

SpecRepeat == Init /\ [][NextRepeat]_vars

(* The preprocessor's operations.                                          *)

StandardizeCropNames(names) ==
    /\ pc = "idle"
    /\ \E name \in names :
          IF standardize_crop_names_raises(name)
          THEN Raises("standardize_crop_names", [name |-> name])
          ELSE Returns("standardize_crop_names", [name |-> name],
                       standardize_crop_names(name))
    /\ UNCHANGED tables

PrepareCropDataForMerging(frames, data_types) ==
    /\ pc = "idle"
    /\ \E df \in frames, data_type \in data_types :
          LET a == [df |-> df, data_type |-> data_type]
              out == prepare_crop_data_for_merging(df, data_type)
          IN  IF out.kind = "raise"
              THEN Raises("prepare_crop_data_for_merging", a)
              ELSE Returns("prepare_crop_data_for_merging", a, out)
    /\ UNCHANGED tables

CreateDerivedFeatures(inputs) ==
    /\ pc = "idle"
    /\ \E datasets \in inputs :
          LET out == create_derived_features(datasets)
          IN  /\ pc' = IF out.kind = "raise" THEN "raised" ELSE "returned"
              /\ op' = "create_derived_features"
              /\ args' = [datasets |-> datasets]
              /\ merged_df' = merged_of(datasets)
              /\ ret' = IF out.kind = "raise" THEN NoValue ELSE out.value
    /\ UNCHANGED <<tables, kept, models, retraining>>

\* the module-level copy of the normalizer is called
ModuleStandardizeCropNames(names) ==
    /\ pc = "idle"
    /\ \E name \in names :
          IF module_standardize_crop_names_raises(name)
          THEN Raises("module_standardize_crop_names", [name |-> name])
          ELSE Returns("module_standardize_crop_names", [name |-> name],
                       module_standardize_crop_names(name))
    /\ UNCHANGED tables

NextMerge ==
    \/ StandardizeCropNames(ColumnNames)
    \/ ModuleStandardizeCropNames(ColumnNames)
    \/ PrepareCropDataForMerging(WideTables, DataTypes)
    \/ CreateDerivedFeatures(Datasets)
    \/ Return

SpecMerge == Init /\ [][NextMerge]_vars

----------------------------------------------------------------------------
(* The preprocessing pipeline: the loaders, then create_features.          *)

LoadData(raw_tables) ==
    /\ pc = "idle"
    /\ \E data \in raw_tables, data_type \in DataTypes :
          LET out == IF data_type = "area" THEN load_area_data(data, Files)
                     ELSE IF data_type = "yield" THEN load_yield_data(data, Files)
                     ELSE load_production_data(data, Files)
          IN  IF out.kind = "raise"
              THEN Raises("load_" \o data_type \o "_data", [data |-> data])
              ELSE Returns("load_" \o data_type \o "_data", [data |-> data], out.value)
    /\ UNCHANGED tables

\* the documented pipeline: each raw table goes through its loader, and the
\* loaded tables go to create_features
LoadAndCreateFeatures(inputs) ==
    /\ pc = "idle"
    /\ \E raw \in inputs :
          LET tables_loaded == loaded(raw, Files)
              datasets == packaged(tables_loaded)
              out == create_features(datasets)
          IN  IF \E key \in DOMAIN raw : tables_loaded[key].kind = "raise"
              THEN Raises("create_features", [raw |-> raw])
              ELSE /\ pc' = IF out.kind = "raise" THEN "raised" ELSE "returned"
                   /\ op' = "create_features"
                   /\ args' = [raw |-> raw]
                   /\ merged_df' = merged_of(datasets)
                   /\ ret' = IF out.kind = "raise" THEN NoValue ELSE out.value
                   /\ UNCHANGED <<kept, models, retraining>>
    /\ UNCHANGED tables

NextPipeline ==
    \/ LoadData(RawTables)
    \/ LoadAndCreateFeatures(RawDatasets)
    \/ Return

SpecPipeline == Init /\ [][NextPipeline]_vars

----------------------------------------------------------------------------
(* The prediction service (src/models/api/app.py): the live weather fetch  *)
(* and the /predict/realtime handler.  A response of the NASA POWER        *)
(* service is an input: the request raises, the body is no JSON, or the    *)
(* body is a JSON object (dict as a sequence of <<key, value>>).           *)

\* round(x) of Python 3 for a float x: the nearest integer, ties to even
round(q) ==
    LET f == q[1] \div q[2]
        r == q[1] - f * q[2]
    IN  IF 2 * r < q[2] THEN f
        ELSE IF 2 * r > q[2] THEN f + 1
        ELSE IF f % 2 = 0 THEN f ELSE f + 1

ParameterNames == <<"T2M", "RH2M", "PRECTOTCORR", "ALLSKY_SFC_SW_DWN">>

DefaultWeather ==
    << <<"avg_temperature_c", Num(QInt(28))>>,
       <<"avg_humidity", Num(QInt(65))>>,
       <<"avg_rainfall_mm", Num(QInt(980))>>,
       <<"solar_radiation", Num(Q(11, 2))>> >>

\* the dict of the request's body, when there is one
parameters_of(response) == Get(Get(response.data, "properties"), "parameter")

\* an exception inside the try block: requests.get raises, response.json()
\* raises, or a subscript of the body raises KeyError
fetch_raises(response) ==
    \/ response.kind # "json"
    \/ ~Has(response.data, "properties")
    \/ ~Has(Get(response.data, "properties"), "parameter")
    \/ \E i \in 1..Len(ParameterNames) :
          \/ ~Has(parameters_of(response), ParameterNames[i])
          \/ /\ Get(parameters_of(response), ParameterNames[i]) # <<>>
             /\ ~Has(Get(parameters_of(response), ParameterNames[i]), "ANN")

\* one entry of the returned dict: None for a parameter whose dict is empty
annual(parameters, name, factor) ==
    IF Get(parameters, name) # <<>>
    THEN Num(QInt(round(QMul(Get(Get(parameters, name), "ANN"), QInt(factor)))))
    ELSE None

fetch_nasa_power_weather(response) ==
    IF fetch_raises(response)
    THEN DefaultWeather
    ELSE << <<"avg_temperature_c", annual(parameters_of(response), "T2M", 1)>>,
            <<"avg_humidity", annual(parameters_of(response), "RH2M", 1)>>,
            <<"avg_rainfall_mm", annual(parameters_of(response), "PRECTOTCORR", 3650)>>,
            <<"solar_radiation", annual(parameters_of(response), "ALLSKY_SFC_SW_DWN", 1)>> >>

\* Python's  x or default  for a number or None
or_default(cell, default) ==
    IF cell.kind = "none" \/ cell.val = Zero THEN Num(default) ELSE cell

prepare_features_for_prediction(farmer_data, response) ==
    LET soil_data == GetOr(farmer_data, "soil", <<>>)
        weather_data == fetch_nasa_power_weather(response)
    IN  << <<"avg_temperature", or_default(Get(weather_data, "avg_temperature_c"), QInt(25))>>,
           <<"avg_humidity", or_default(Get(weather_data, "avg_humidity"), QInt(60))>>,
           <<"avg_rainfall", or_default(Get(weather_data, "avg_rainfall_mm"), QInt(1000))>>,
           <<"solar_radiation", or_default(Get(weather_data, "solar_radiation"), QInt(5))>>,
           <<"soil_ph", GetOr(soil_data, "ph", Num(Q(13, 2)))>>,
           <<"soil_organic_carbon", GetOr(soil_data, "organic_carbon", Num(One))>>,
           <<"soil_nitrogen", GetOr(soil_data, "nitrogen", Num(QInt(150)))>>,
           <<"soil_phosphorus", GetOr(soil_data, "phosphorus", Num(QInt(30)))>>,
           <<"soil_potassium", GetOr(soil_data, "potassium", Num(QInt(150)))>>,
           <<"budget_inr", GetOr(farmer_data, "budget_inr", Num(QInt(50000)))>>,
           <<"land_area_acres", GetOr(farmer_data, "land_area_acres", Num(One))>>,
           <<"yield_per_area_RICE", Num(Q(5, 2))>>,
           <<"yield_efficiency_RICE", Num(Q(25, 10000))>>,
           <<"yield_per_area_WHEAT", Num(Q(32, 10))>>,
           <<"yield_efficiency_WHEAT", Num(Q(32, 10000))>> >>

\* the object is there and says it is trained
usable(model) == model.created /\ model.is_trained

\* None > 800: TypeError, caught by the handler's except
comparison_raises(weather_data) ==
    \/ Get(weather_data, "avg_rainfall_mm").kind = "none"
    \/ Get(weather_data, "avg_temperature_c").kind = "none"

\* the handler's answer: the body and the HTTP status
predict_realtime(data, response, ym, rm) ==
    LET weather_data == fetch_nasa_power_weather(response)
        land_area == GetOr(data, "land_area_acres", Num(One)).val
        yield_prediction == IF usable(ym) THEN QMul(QInt(3000), land_area)
                            ELSE QMul(QInt(2500), land_area)
        roi_prediction == IF usable(rm) THEN Q(28, 10) ELSE Q(25, 10)
        rainfall == Get(weather_data, "avg_rainfall_mm").val
        temperature == Get(weather_data, "avg_temperature_c").val
    IN  IF data = <<>>
        THEN [status |-> 400, error |-> "No input data provided"]
        ELSE IF comparison_raises(weather_data)
        THEN [status |-> 500, error |-> "Real-time prediction failed"]
        ELSE [status |-> 200,
              predictions |-> [yield_kg_per_acre |-> yield_prediction,
                               roi |-> roi_prediction,
                               confidence |-> Q(85, 100)],
              weather_data |-> weather_data,
              recommendations |->
                  [best_crop |-> IF QLt(QInt(800), rainfall) THEN "Maize" ELSE "Sorghum",
                   planting_time |-> IF QLt(QInt(25), temperature) THEN "June-July"
                                     ELSE "October-November",
                   irrigation_needs |-> IF QLt(QInt(1000), rainfall) THEN "Moderate"
                                        ELSE "High"],
              farmer_data |-> data]

\* ---- the inputs of the service

\* the annual values a parameter's dict may carry; <<>> is the empty dict and
\* a dict with "JAN" only has no annual value
ParameterDicts(name) ==
    {<<>>} \cup
    (IF name = "T2M" THEN {<< <<"ANN", Q(53, 2)>> >>, << <<"ANN", QInt(24)>> >>,
                           << <<"JAN", QInt(24)>> >>}
     ELSE IF name = "RH2M" THEN {<< <<"ANN", Q(641, 10)>> >>}
     ELSE IF name = "PRECTOTCORR" THEN {<< <<"ANN", Q(2, 10)>> >>, << <<"ANN", Q(3, 10)>> >>}
     ELSE {<< <<"ANN", Q(52, 10)>> >>})

\* a requested parameter is in the body with one of its dicts, or is missing
ParameterEntries(name) == {<<>>} \cup {<< <<name, d>> >> : d \in ParameterDicts(name)}

ParameterBodies ==
    {a \o b \o c \o d : a \in ParameterEntries("T2M"), b \in ParameterEntries("RH2M"),
                        c \in ParameterEntries("PRECTOTCORR"),
                        d \in ParameterEntries("ALLSKY_SFC_SW_DWN")}

Json(data) == [kind |-> "json", data |-> data]

Responses ==
    {[kind |-> "raises"], [kind |-> "not_json"]}
    \cup {Json(<< <<"type", <<>> >> >>), Json(<< <<"properties", <<>> >> >>)}
    \cup {Json(<< <<"properties", << <<"parameter", p>> >> >> >>) : p \in ParameterBodies}

\* the second fetch of the handler, made by prepare_features_for_prediction
SecondResponses ==
    {[kind |-> "raises"],
     Json(<< <<"properties", << <<"parameter",
              << <<"T2M", <<>> >>, <<"RH2M", << <<"ANN", Q(641, 10)>> >> >>,
                 <<"PRECTOTCORR", << <<"ANN", Q(3, 10)>> >> >>,
                 <<"ALLSKY_SFC_SW_DWN", << <<"ANN", Q(52, 10)>> >> >> >> >> >> >> >>)}

Location == << <<"lat", Num(Q(153, 10))>>, <<"lng", Num(Q(751, 10))>> >>

FarmerData ==
    {<<>>,
     << <<"location", Location>> >>,
     << <<"location", Location>>, <<"land_area_acres", Num(QInt(2))>>,
        <<"soil", << <<"ph", Num(Q(67, 10))>> >> >>, <<"budget_inr", Num(QInt(60000))>> >>}

\* ---- the calls of the service

FetchNasaPowerWeather(responses) ==
    /\ pc = "idle"
    /\ \E response \in responses :
          Returns("fetch_nasa_power_weather", [response |-> response],
                  fetch_nasa_power_weather(response))
    /\ UNCHANGED tables

PrepareFeaturesForPrediction(farmer, responses) ==
    /\ pc = "idle"
    /\ \E farmer_data \in farmer, response \in responses :
          Returns("prepare_features_for_prediction",
                  [farmer_data |-> farmer_data, response |-> response],
                  prepare_features_for_prediction(farmer_data, response))
    /\ UNCHANGED tables

\* POST /predict/realtime: the handler fetches the weather, then builds the
\* feature row (a second fetch, the row is not used), then answers
PredictRealtime(farmer, responses, second) ==
    /\ pc = "idle"
    /\ \E data \in farmer, response \in responses, again \in second :
          LET features_df == IF data = <<>> THEN <<>>
                             ELSE prepare_features_for_prediction(data, again)
          IN  Returns("predict_realtime",
                      [data |-> data, response |-> response, again |-> again,
                       features_df |-> features_df],
                      predict_realtime(data, response, yield_model, roi_model))
    /\ UNCHANGED tables

----------------------------------------------------------------------------
(* The models (src/models/training/model_trainer.py): AgriYieldModel and   *)
(* AgriROIModel.  An object is a record: created, is_trained, feature_names*)
(* (None and [] are both <<>>) and fitted, the columns its estimators were *)
(* fitted on.  A feature matrix is the sequence of its column names; the   *)
(* values of the features and the predictions are left out.  The datasets  *)
(* dict is keyed by short names:                                           *)
(*   nasa        '1. NASA POWER Data (Rainfall, Temperature, ...'          *)
(*   yield       'All India level Average Yield of Principal Crops ...'    *)
(*   area        'All India level Area Under Principal Crops ...'          *)
(*   production  'Production of principle crops'                           *)
(*   price       'price'                                                   *)
(*   damage      'Year-wise Damage Caused Due To Floods, ...'              *)

\* key in datasets, the table is not None and not empty
present(datasets, key) ==
    /\ key \in DOMAIN datasets
    /\ datasets[key].kind = "frame"
    /\ datasets[key].rows # <<>>
    /\ datasets[key].columns # <<>>

RECURSIVE uppered(_)
uppered(s) == IF s = "" THEN "" ELSE upper(Head(s)) \o uppered(Tail(s))

\* str(crop).replace(' ', '_').replace('-', '_').replace('(', '')
\*          .replace(')', '').replace(',', '').upper()
feature_crop_name(crop) ==
    uppered(replace(replace(replace(replace(replace(crop, " ", "_"), "-", "_"),
                                    "(", ""), ")", ""), ",", ""))

\* str(i) for an index below 10
str_of(i) == CharAt(Digits, i + 1)

nasa_features(datasets) ==
    IF present(datasets, "nasa")
    THEN <<"avg_temperature", "avg_humidity", "avg_rainfall", "solar_radiation">>
    ELSE <<>>

\* the rows of the melted table that hold a number
numeric_rows(df) ==
    LET crop_columns ==
            SelectSeq([j \in 1..Len(df.columns) |-> j], LAMBDA j : df.columns[j] # "Year")
        first == dropna(melt(df, crop_columns, "Value"))
    IN  dropna([i \in 1..Len(first) |-> [first[i] EXCEPT !["Value"] = to_numeric(@)]])

\* groupby('Crop').mean().nlargest(10): the crops in the order of their means
nlargest(rows, crops) ==
    Keys(Take(SortDesc([k \in 1..Len(crops) |->
        LET group == SelectSeq(rows, LAMBDA r : r["Crop"] = crops[k])
        IN  <<crops[k], mean([i \in 1..Len(group) |-> group[i]["Value"]]).val>>]), 10))

\* the ten crops of a wide table with the largest means, in nlargest order;
\* melt raises KeyError without a Year column, which the except catches
top_crops(df) ==
    IF "Year" \notin Range(df.columns) THEN <<>>
    ELSE CHOOSE top \in
             {nlargest(rows, crops) :
                 <<rows, crops>> \in
                     {<<melted, sorted({melted[i]["Crop"] : i \in 1..Len(melted)})>> :
                         melted \in {numeric_rows(df)}}} : TRUE

\* the keys of the crops: a mean for each, and a std where the model has one
crop_feature_names(key, with_std, crops) ==
    Concat([i \in 1..Len(crops) |->
        CHOOSE keys \in
            {<<key \o "_mean_" \o str_of(i - 1) \o "_" \o crop_name>>
              \o (IF with_std THEN <<key \o "_std_" \o str_of(i - 1) \o "_" \o crop_name>>
                  ELSE <<>>) : crop_name \in {feature_crop_name(crops[i])}} : TRUE])

\* the features of the yield, area or production table
crop_features(datasets, key, with_std) ==
    IF present(datasets, key)
    THEN crop_feature_names(key, with_std, top_crops(datasets[key]))
    ELSE <<>>

price_features(datasets) ==
    IF present(datasets, "price")
    THEN LET price_cols == Take(SelectSeq(datasets["price"].columns,
                                    LAMBDA col : col \notin {"YEAR", "STATE", "DISTRICT"}), 10)
         IN  Concat([i \in 1..Len(price_cols) |->
                 << "price_mean_" \o str_of(i - 1) \o "_" \o price_cols[i],
                    "price_std_" \o str_of(i - 1) \o "_" \o price_cols[i],
                    "price_max_" \o str_of(i - 1) \o "_" \o price_cols[i],
                    "price_min_" \o str_of(i - 1) \o "_" \o price_cols[i] >>])
    ELSE <<>>

damage_features(datasets) ==
    IF present(datasets, "damage")
    THEN <<"total_flood_damage", "total_cyclone_damage", "total_landslide_damage",
           "years_of_damage_data", "avg_flood_damage", "avg_cyclone_damage",
           "avg_landslide_damage">>
    ELSE <<>>

\* list(features.keys()) of prepare_features, which are the columns of the
\* one-row feature_df it returns and the value it leaves in self.feature_names
prepare_features(class, datasets) ==
    IF class = "AgriYieldModel"
    THEN nasa_features(datasets) \o crop_features(datasets, "yield", TRUE)
         \o crop_features(datasets, "area", TRUE)
         \o crop_features(datasets, "production", TRUE)
         \o price_features(datasets) \o damage_features(datasets)
    ELSE nasa_features(datasets) \o price_features(datasets)
         \o crop_features(datasets, "production", FALSE)
         \o crop_features(datasets, "yield", FALSE)

\* len(X) of the feature_df: pd.DataFrame([features]) has one row
n_samples == 1

\* the columns of sample_data
sample_columns(class) ==
    IF class = "AgriYieldModel"
    THEN <<"avg_temperature", "avg_humidity", "avg_rainfall", "solar_radiation",
           "yield_mean_0_RICE", "yield_mean_1_WHEAT", "area_mean_0_RICE",
           "price_mean_0_RICE", "price_mean_1_WHEAT">>
    ELSE <<"avg_temperature", "avg_humidity", "avg_rainfall", "price_mean_0_RICE",
           "price_mean_1_WHEAT", "yield_mean_0_RICE", "yield_mean_1_WHEAT">>

NewModelObject == [created |-> TRUE, is_trained |-> FALSE, feature_names |-> <<>>, fitted |-> <<>>]

\* the object after train(datasets)
train(class, model, datasets) ==
    LET columns == IF n_samples < 2 THEN sample_columns(class)
                   ELSE prepare_features(class, datasets)
    IN  [model EXCEPT !.is_trained = TRUE, !.feature_names = columns, !.fitted = columns]

\* the matrix predict hands to the estimators: the columns of feature_names,
\* those that prepare_features did not make filled with 0
aligned(columns, feature_names) ==
    IF feature_names # <<>>
    THEN [i \in 1..Len(feature_names) |->
             [name |-> feature_names[i], filled |-> feature_names[i] \notin Range(columns)]]
    ELSE [i \in 1..Len(columns) |-> [name |-> columns[i], filled |-> FALSE]]

ColumnNamesOf(matrix) == [i \in 1..Len(matrix) |-> matrix[i].name]

\* what the fitted estimators do with a matrix: with another number of
\* columns than they were fitted on they raise ValueError; with as many
\* columns under other names the library version decides
estimator_outcomes(matrix, fitted) ==
    IF ColumnNamesOf(matrix) = fitted THEN {"return"}
    ELSE IF Len(matrix) # Len(fitted) THEN {"raise"}
    ELSE {"return", "raise"}

\* the files save_model writes, with what they hold
saved_files(class, model, filepath) ==
    IF class = "AgriYieldModel"
    THEN << <<filepath \o "_rf.pkl", model.fitted>>, <<filepath \o "_xgb.pkl", model.fitted>>,
            <<filepath \o "_scaler.pkl", model.fitted>>,
            <<filepath \o "_features.pkl", model.feature_names>> >>
    ELSE << <<filepath \o "_roi.pkl", model.fitted>>,
            <<filepath \o "_scaler.pkl", model.fitted>>,
            <<filepath \o "_features.pkl", model.feature_names>> >>

\* the disk after joblib.dump of every file: a file that was there is replaced
written(files, on_disk) ==
    {file \in on_disk : \A i \in 1..Len(files) : files[i][1] # file[1]} \cup Range(files)

exists(on_disk, name) == \E file \in on_disk : file[1] = name

\* joblib.load of a file that is there
joblib_load(on_disk, name) == (CHOOSE file \in on_disk : file[1] = name)[2]

\* the first file load_model reads
first_file(class, filepath) ==
    filepath \o (IF class = "AgriYieldModel" THEN "_rf.pkl" ELSE "_roi.pkl")

\* joblib.load of a file that is not there raises
load_raises(class, filepath, on_disk) ==
    \E i \in 1..Len(saved_files(class, NewModelObject, filepath)) :
        ~exists(on_disk, saved_files(class, NewModelObject, filepath)[i][1])

\* the object after load_model(filepath) has read every file
loaded_model(class, model, filepath, on_disk) ==
    [model EXCEPT !.fitted = joblib_load(on_disk, first_file(class, filepath)),
                  !.feature_names = joblib_load(on_disk, filepath \o "_features.pkl"),
                  !.is_trained = TRUE]

\* ---- the inputs of the models

Classes == {"AgriYieldModel", "AgriROIModel"}

NasaTable ==
    DataFrame(<<"T2M", "RH2M", "PRECTOTCORR", "ALLSKY_SFC_SW_DWN">>,
              << <<Num(Q(265, 10)), Num(Q(641, 10)), Num(Q(3, 10)), Num(Q(52, 10))>> >>)
PriceTable ==
    DataFrame(<<"YEAR", "STATE", "RICE", "WHEAT">>,
              << <<Num(QInt(2015)), Str("Karnataka"), Num(QInt(20)), Num(QInt(15))>> >>)
DamageTable ==
    DataFrame(<<"Year", "Flood", "Cyclone", "Landslide">>,
              << <<Num(QInt(2015)), Num(QInt(3)), Num(QInt(1)), Num(Zero)>> >>)

\* the dict of the API and of the retraining script: every table None
NoTables ==
    [nasa |-> None, yield |-> None, area |-> None, production |-> None,
     price |-> None, damage |-> None]

ModelDatasets ==
    {NoTables,
     [NoTables EXCEPT !.nasa = NasaTable],
     [NoTables EXCEPT !.nasa = NasaTable, !.yield = WideTable(PipelineLayout[2], YieldCell),
                      !.area = WideTable(PipelineLayout[1], AreaCell),
                      !.production = WideTable(PipelineLayout[3], ProductionCell),
                      !.price = PriceTable, !.damage = DamageTable],
     [damage |-> DamageTable, yield |-> KeywordTable(YieldCell)]}

\* prepare_features of every class and input, computed once
prepared ==
    [class \in Classes, datasets \in ModelDatasets |-> prepare_features(class, datasets)]

\* a predict whose prepare_features leaves self.feature_names alone
predict_matrix_by_training_names(class, model, datasets) ==
    aligned(prepared[class, datasets], model.feature_names)

\* the object after predict(datasets) of a trained object: prepare_features
\* has stored the keys of this call's features in self.feature_names
predicted(class, model, datasets) ==
    [model EXCEPT !.feature_names = prepared[class, datasets]]

predict_matrix(class, model, datasets) ==
    aligned(prepared[class, datasets],
            predicted(class, model, datasets).feature_names)

FilePaths == {"saved_models/yield_model", "saved_models/roi_model"}

\* ---- the calls of the models

ModelOf(class) == IF class = "AgriYieldModel" THEN yield_model ELSE roi_model

\* the object of the class becomes new, the other object stays
Becomes(class, new) ==
    /\ yield_model' = IF class = "AgriYieldModel" THEN new ELSE yield_model
    /\ roi_model' = IF class = "AgriROIModel" THEN new ELSE roi_model

Answers(name, a, r) ==
    /\ pc' = "returned"
    /\ op' = name
    /\ args' = a
    /\ ret' = r
    /\ UNCHANGED <<tables, kept, merged_df, retraining>>

Fails(name, a) ==
    /\ pc' = "raised"
    /\ op' = name
    /\ args' = a
    /\ ret' = NoValue
    /\ UNCHANGED <<tables, kept, merged_df, retraining>>

\* AgriYieldModel() / AgriROIModel()
NewModel(classes) ==
    /\ pc = "idle"
    /\ \E class \in classes :
          /\ Becomes(class, NewModelObject)
          /\ Answers("__init__", [class |-> class], NoValue)
    /\ UNCHANGED <<disk, X>>

Train(classes, inputs) ==
    /\ pc = "idle"
    /\ \E class \in classes, datasets \in inputs :
          /\ ModelOf(class).created
          /\ Becomes(class, train(class, ModelOf(class), datasets))
          /\ Answers("train", [class |-> class, datasets |-> datasets],
                     [metrics |-> "metrics"])
    /\ UNCHANGED <<disk, X>>

Predict(classes, inputs) ==
    /\ pc = "idle"
    /\ \E class \in classes, datasets \in inputs :
          LET model == ModelOf(class)
              matrix == predict_matrix(class, model, datasets)
          IN  /\ model.created
              /\ IF ~model.is_trained
                 THEN /\ Fails("predict", [class |-> class, datasets |-> datasets])
                      /\ UNCHANGED <<yield_model, roi_model, X>>
                 ELSE /\ Becomes(class, predicted(class, model, datasets))
                      /\ X' = [columns |-> matrix]
                      /\ \E outcome \in estimator_outcomes(matrix, model.fitted) :
                            IF outcome = "raise"
                            THEN Fails("predict", [class |-> class, datasets |-> datasets])
                            ELSE Answers("predict", [class |-> class, datasets |-> datasets],
                                         [predictions |-> "predictions"])
    /\ UNCHANGED disk

SaveModel(classes, paths) ==
    /\ pc = "idle"
    /\ \E class \in classes, filepath \in paths :
          LET model == ModelOf(class)
          IN  /\ model.created
              /\ IF ~model.is_trained
                 THEN /\ Fails("save_model", [class |-> class, filepath |-> filepath])
                      /\ UNCHANGED disk
                 ELSE /\ disk' = written(saved_files(class, model, filepath), disk)
                      /\ Answers("save_model", [class |-> class, filepath |-> filepath], NoValue)
    /\ UNCHANGED <<yield_model, roi_model, X>>

LoadModel(classes, paths) ==
    /\ pc = "idle"
    /\ \E class \in classes, filepath \in paths :
          LET model == ModelOf(class)
          IN  /\ model.created
              /\ IF load_raises(class, filepath, disk)
                 THEN /\ Fails("load_model", [class |-> class, filepath |-> filepath])
                      /\ UNCHANGED <<yield_model, roi_model>>
                 ELSE /\ Becomes(class, loaded_model(class, model, filepath, disk))
                      /\ Answers("load_model", [class |-> class, filepath |-> filepath], NoValue)
    /\ UNCHANGED <<disk, X>>

\* app.py load_models: both objects are made, then loaded from disk; an
\* exception ends the loading and the answer is False
LoadModels ==
    /\ pc = "idle"
    /\ LET yield_path == "saved_models/yield_model"
           roi_path == "saved_models/roi_model"
           yield_fails == load_raises("AgriYieldModel", yield_path, disk)
           roi_fails == load_raises("AgriROIModel", roi_path, disk)
       IN  /\ yield_model' = IF yield_fails THEN NewModelObject
                             ELSE loaded_model("AgriYieldModel", NewModelObject, yield_path, disk)
           /\ roi_model' = IF yield_fails \/ roi_fails THEN NewModelObject
                           ELSE loaded_model("AgriROIModel", NewModelObject, roi_path, disk)
           /\ Answers("load_models", NoValue, ~(yield_fails \/ roi_fails))
    /\ UNCHANGED <<disk, X>>

NextModels ==
    \/ NewModel(Classes)
    \/ Train(Classes, ModelDatasets)
    \/ Predict(Classes, ModelDatasets)
    \/ SaveModel({"AgriYieldModel"}, {"saved_models/yield_model"})
    \/ SaveModel({"AgriROIModel"}, {"saved_models/roi_model"})
    \/ LoadModel(Classes, FilePaths)
    \/ Return

SpecModels == Init /\ [][NextModels]_vars

\* the service with its models: train_models.py trains and saves them, and
\* load_models loads them at the start of the service; the file names are
\* those of app.py, which runs inside the directory train_models.py writes to
NextService ==
    \/ NewModel(Classes)
    \/ Train(Classes, {NoTables})
    \/ SaveModel({"AgriYieldModel"}, {"saved_models/yield_model"})
    \/ SaveModel({"AgriROIModel"}, {"saved_models/roi_model"})
    \/ LoadModels
    \/ FetchNasaPowerWeather(Responses)
    \/ PrepareFeaturesForPrediction(FarmerData, SecondResponses)
    \/ PredictRealtime(FarmerData, Responses, SecondResponses)
    \/ Return

SpecService == Init /\ [][NextService]_vars

----------------------------------------------------------------------------
(* Properties of the suitability scorer.                                   *)

InUnitInterval(q) == QLe(Zero, q) /\ QLe(q, One)

RuleOf(crop_name) == Get(CropRules, crop_name)
KnownCrops == Range(Keys(CropRules))
TableIndex(crop_name) == CHOOSE i \in 1..Len(CropRules) : CropRules[i][1] = crop_name

\* C1: for every crop identifier, soil and weather (zero and negative values
\* included) assess_soil_suitability, assess_weather_suitability and the
\* combined score computed in recommend_crops lie in [0, 1].
C1_ScoresInUnitInterval ==
    /\ op \in {"assess_soil_suitability", "assess_weather_suitability"}
          => InUnitInterval(ret)
    /\ op = "recommend_crops"
          => \A c \in KnownCrops :
                InUnitInterval(combined_score(crop_suitability, args.soil, args.weather, c))

\* C2: for a crop of the rule table assess_soil_suitability returns
\* 0.3*p + 0.3*t + 0.4*min(1, organic_carbon/2), p = 1 if ph_min <= ph <= ph_max
\* (inclusive) else 0.5, t = 1 if the texture is accepted else 0.7.
C2_SoilFormula ==
    (op = "assess_soil_suitability" /\ args.crop_name \in KnownCrops) =>
        LET r == RuleOf(args.crop_name)
            ph == args.soil.ph
            p10 == IF r.ph_min <= ph /\ ph <= r.ph_max THEN 10 ELSE 5
            t10 == IF args.soil.texture \in r.soil_types THEN 10 ELSE 7
            \* min(1, oc/2) in 200ths, oc in hundredths
            c200 == IF args.soil.organic_carbon >= 200 THEN 200 ELSE args.soil.organic_carbon
        IN  \* 0.3*p10/10 + 0.3*t10/10 + 0.4*c200/200, over the denominator 1000
            ret = Q(30 * p10 + 30 * t10 + 2 * c200, 1000)

\* C2 witness: a soil whose ph sits exactly on the crop's ph_max, scored 1.0 on
\* the ph axis, with a texture the crop does not accept and carbon above 2%.
C2_Witness ==
    /\ op = "assess_soil_suitability"
    /\ args.crop_name = "Gliricidia"
    /\ args.soil.ph = 80
    /\ args.soil.texture = "Clay"
    /\ args.soil.organic_carbon = 300
    /\ ret = Q(91, 100)

\* C3: for a crop of the rule table assess_weather_suitability returns
\* 0.6*T + 0.4*R, T = 1 inside [temp_min, temp_max] (inclusive) else 0.5,
\* R = 1 inside [rainfall_min, rainfall_max] (inclusive), rainfall/rainfall_min
\* below the minimum, rainfall_max/rainfall above the maximum.
C3_WeatherFormula ==
    (op = "assess_weather_suitability" /\ args.crop_name \in KnownCrops) =>
        LET r == RuleOf(args.crop_name)
            t == args.weather.temperature_c
            mm == args.weather.rainfall_mm
            T == IF r.temp_min <= t /\ t <= r.temp_max THEN One ELSE Half
            R == IF mm < r.rainfall_min THEN Q(mm, r.rainfall_min)
                 ELSE IF mm <= r.rainfall_max THEN One
                 ELSE Q(r.rainfall_max, mm)
        IN  ret = QAdd(QMul(Q(6, 10), T), QMul(Q(4, 10), R))

\* C3 witness: rainfall below the crop's minimum with the temperature exactly on
\* temp_max: 0.6*1 + 0.4*(300/600).
C3_Witness ==
    /\ op = "assess_weather_suitability"
    /\ args.crop_name = "Mango"
    /\ args.weather.temperature_c = 40
    /\ args.weather.rainfall_mm = 300
    /\ ret = Q(8, 10)

ScoreOf(soil, weather, c) ==
    QDiv(QAdd(assess_soil_suitability(CropRules, soil, c),
              assess_weather_suitability(CropRules, weather, c)), QInt(2))

\* the combined scores of the rule table's crops, in table order
Scores(soil, weather) ==
    [i \in 1..Len(CropRules) |-> ScoreOf(soil, weather, CropRules[i][1])] \o <<>>

\* with scores sc, the crop at table index i ranks ahead of the one at j: a
\* higher score, or the same score and earlier in the table
RanksAhead(sc, i, j) == QLt(sc[j], sc[i]) \/ (sc[i] = sc[j] /\ i < j)

\* C4: recommend_crops returns (crop, mean of soil and weather suitability)
\* pairs, (a) only with score > 0.5, (b) by non-increasing score, ties in
\* rule-table order, (c) without duplicates, (d) the first 5 of that ranking: a
\* crop is left out only if its score is <= 0.5 or five crops rank ahead of it.
C4_Ranking ==
    op = "recommend_crops" =>
        LET sc == Scores(args.soil, args.weather)
            idx == [i \in 1..Len(ret) |-> TableIndex(ret[i][1])] \o <<>>
            chosen == Range(idx)
        IN  /\ \A i \in 1..Len(ret) :
                  /\ ret[i][1] \in KnownCrops
                  /\ ret[i][2] = sc[idx[i]]
                  /\ QLt(Half, ret[i][2])
            /\ \A i, j \in 1..Len(ret) : i < j => RanksAhead(sc, idx[i], idx[j])
            /\ Cardinality(chosen) = Len(ret)
            /\ Len(ret) <= 5
            /\ \A k \in (1..Len(CropRules)) \ chosen :
                  \/ QLe(sc[k], Half)
                  \/ /\ Len(ret) = 5
                     /\ \A d \in chosen : RanksAhead(sc, d, k)

\* C4 witness: all six crops score above 0.5 and the last-ranked one is cut,
\* while two returned crops tie and stand in table order.
C4_Witness ==
    /\ op = "recommend_crops"
    /\ Len(ret) = 5
    /\ \A c \in KnownCrops : QLt(Half, ScoreOf(args.soil, args.weather, c))
    /\ \E i \in 1..4 : ret[i][2] = ret[i + 1][2]

----------------------------------------------------------------------------
(* Properties of the composer.                                             *)

\* C5: main_crop is the highest-scoring candidate (the first entry of the
\* recommend_crops result) when there is one, and the default Maize with
\* intercrop Cowpea when no crop scores above 0.5.
C5_MainCrop ==
    op = "generate_recommendation" =>
        LET sc == Scores(args.soil, args.weather)
            cand == {i \in 1..Len(CropRules) : QLt(Half, sc[i])}
            recs == recommend_crops(CropRules, args.soil, args.weather)
        IN  IF cand = {}
            THEN ret.main_crop = "Maize" /\ ret.intercrop = "Cowpea"
            ELSE /\ recs # <<>>
                 /\ ret.main_crop = recs[1][1]
                 /\ \E m \in cand :
                       /\ ret.main_crop = CropRules[m][1]
                       /\ \A k \in cand \ {m} : RanksAhead(sc, m, k)

\* C5 witnesses: the fallback is taken, and elsewhere a crop other than the
\* default is chosen as the best candidate.
C5_Witness ==
    /\ op = "generate_recommendation"
    /\ recommend_crops(CropRules, args.soil, args.weather) = <<>>
    /\ ret.main_crop = "Maize"
    /\ ret.intercrop = "Cowpea"

C5_WitnessBest ==
    /\ op = "generate_recommendation"
    /\ ret.main_crop = "Turmeric"

\* C6: with a non-empty recommend_crops result the intercrop is the first
\* candidate after the main crop whose crop_type differs from the main crop's;
\* without one it is the default Cowpea.
C6_Intercrop ==
    op = "generate_recommendation" =>
        LET recs == recommend_crops(CropRules, args.soil, args.weather)
            differs(i) == RuleOf(recs[i][1]).crop_type # RuleOf(recs[1][1]).crop_type
        IN  recs # <<>> =>
               IF \E i \in 2..Len(recs) : differs(i)
               THEN \E i \in 2..Len(recs) :
                       /\ differs(i)
                       /\ \A j \in 2..(i - 1) : ~differs(j)
                       /\ ret.intercrop = recs[i][1]
               ELSE ret.intercrop = "Cowpea"

\* C6 witness: the candidate right after the main crop has the main crop's
\* type and is skipped for a later one.
C6_Witness ==
    /\ op = "generate_recommendation"
    /\ LET recs == recommend_crops(CropRules, args.soil, args.weather)
       IN  /\ Len(recs) >= 3
           /\ RuleOf(recs[2][1]).crop_type = RuleOf(recs[1][1]).crop_type
           /\ ret.intercrop = recs[3][1]

\* C6 witness of the default: candidates exist, none of another type.
C6_WitnessDefault ==
    /\ op = "generate_recommendation"
    /\ LET recs == recommend_crops(CropRules, args.soil, args.weather)
       IN  /\ Len(recs) >= 2
           /\ \A i \in 2..Len(recs) :
                 RuleOf(recs[i][1]).crop_type = RuleOf(recs[1][1]).crop_type
    /\ ret.intercrop = "Cowpea"

\* the price a crop is sold at: its entry of the price table, and for a crop
\* without one the default of the role it is grown in
PriceAs(crop, default) == IF Has(crop_prices, crop) THEN Get(crop_prices, crop) ELSE default

\* the profit C7 states, from the arguments of the call
C7Profit(a) ==
    LET main_income == QMul(estimate_yield(a.main_crop, a.land_area_acres),
                            QInt(PriceAs(a.main_crop, 25)))
        inter_income == QMul(estimate_yield(a.intercrop, QMul(Q(3, 10), a.land_area_acres)),
                             QInt(PriceAs(a.intercrop, 30)))
        mango_trees == Trunc(QMul(QInt(20), a.land_area_acres))
        tree_income == IF \E i \in 1..Len(a.trees) : a.trees[i] = "Mango"
                       THEN QInt(mango_trees * 200 * Get(crop_prices, "Mango"))
                       ELSE Zero
    IN  QSub(QAdd(QAdd(main_income, inter_income), tree_income),
             Q(6 * a.budget_inr, 10))

C7Cost(a) == Q(6 * a.budget_inr, 10)

C7Case == op = "estimate_profit" /\ args.main_crop \in KnownCrops /\ args.intercrop \in KnownCrops

\* C7 as stated: profit = main income + intercrop income (over 30% of the
\* area) + Mango tree income - 0.6*budget, and roi = profit / (0.6*budget),
\* with roi = 0 when the cost is 0.
C7_ProfitRoiAsStated ==
    C7Case =>
        /\ ret[1] = C7Profit(args)
        /\ ret[2] = IF C7Cost(args) = Zero THEN Zero ELSE QDiv(C7Profit(args), C7Cost(args))

\* C7 amended: the same profit, and roi = profit / (0.6*budget) when the cost
\* is positive, roi = 0 when the cost is zero or negative.
C7_ProfitRoi ==
    C7Case =>
        /\ ret[1] = C7Profit(args)
        /\ ret[2] = IF QLt(Zero, C7Cost(args)) THEN QDiv(C7Profit(args), C7Cost(args))
                    ELSE Zero

\* C7 witness: Maize with Cowpea and Mango trees on 5 acres, budget 60000:
\* 400000 + 75000 + 1200000 - 36000, roi 1639000/36000.
C7_Witness ==
    /\ op = "estimate_profit"
    /\ args.main_crop = "Maize" /\ args.intercrop = "Cowpea"
    /\ args.trees = <<"Mango", "Gliricidia">>
    /\ args.land_area_acres = QInt(5) /\ args.budget_inr = 60000
    /\ ret = <<QInt(1639000), Q(1639, 36)>>

\* C7 witness of the guard: a budget of 0 gives a cost of 0 and roi 0.
C7_WitnessZeroCost ==
    /\ op = "estimate_profit"
    /\ args.main_crop \in KnownCrops /\ args.intercrop \in KnownCrops
    /\ args.budget_inr = 0
    /\ QLt(Zero, ret[1])
    /\ ret[2] = Zero

\* C8: on one engine, after any earlier calls, a generate_recommendation call
\* with the arguments of an earlier generate_recommendation call returns a
\* Recommendation equal to the earlier one in every field.
C8_SameRequestSameRecommendation ==
    (op = "generate_recommendation" /\ kept # NoValue /\ kept.args = args) =>
        /\ ret.main_crop = kept.ret.main_crop
        /\ ret.intercrop = kept.ret.intercrop
        /\ ret.trees = kept.ret.trees
        /\ ret.layout = kept.ret.layout
        /\ ret.expected_yield_kg = kept.ret.expected_yield_kg
        /\ ret.profit_estimate_inr = kept.ret.profit_estimate_inr
        /\ ret.roi = kept.ret.roi
        /\ ret.sustainability_tips = kept.ret.sustainability_tips

\* C8 witness: a request is made a second time, for a plot that gets three
\* condition tips on top of the six of the base list.
C8_Witness ==
    /\ op = "generate_recommendation"
    /\ kept # NoValue
    /\ kept.args = args
    /\ args.soil = PoorSoil
    /\ Len(ret.sustainability_tips) = 9
    /\ ret = kept.ret

----------------------------------------------------------------------------
(* Properties of the feature merger.                                       *)

\* the wide table a request holds under a key (None when it holds none)
TableOf(datasets, key) == datasets_get(datasets, key)

HasYearColumn(df) == df.kind = "frame" /\ "Year" \in Range(df.columns)

\* the (crop, year) pairs a table has a numeric cell for
NumericPairs(df) ==
    IF HasYearColumn(df)
    THEN {<<standardize_crop_names(df.columns[c[2]]), df.rows[c[1]][ColumnIndex(df, "Year")]>> :
             c \in {d \in (1..Len(df.rows)) \X (1..Len(df.columns)) :
                       /\ df.columns[d[2]] # "Year"
                       /\ ~isna(df.rows[d[1]][ColumnIndex(df, "Year")])
                       /\ to_numeric(df.rows[d[1]][d[2]]).kind = "num"}}
    ELSE {}

NumericIn(df, crop, year) == <<crop, year>> \in NumericPairs(df)

\* the pairs that are numeric in the area, the yield and the production table
CompletePairs(datasets) ==
    NumericPairs(TableOf(datasets, "area"))
    \cap NumericPairs(TableOf(datasets, "yield"))
    \cap NumericPairs(TableOf(datasets, "production"))

\* the crops and the years the tables of a request name
CropsNamed(datasets) ==
    UNION {LET df == TableOf(datasets, key)
           IN  IF df.kind = "frame"
               THEN {standardize_crop_names(df.columns[j]) : j \in 1..Len(df.columns)}
               ELSE {} : key \in DataTypes}
YearsNamed == {Num(QInt(Years[i])) : i \in 1..MaxYears}

MergedPairs == {<<merged_df[k]["Crop"], merged_df[k]["Year"]>> : k \in 1..Len(merged_df)}

\* C9: a (Crop, Year) pair has a row in the merged table exactly when the pair
\* has a numeric value in the area, the yield and the production table; the
\* merged table has rows of no other pair, and every entry of the output comes
\* from a crop with such a pair.
C9_MergedIffInAllThree ==
    (op = "create_derived_features" /\ pc = "returned") =>
        LET complete == CompletePairs(args.datasets)
        IN  /\ \A crop \in CropsNamed(args.datasets), year \in YearsNamed :
                  <<crop, year>> \in MergedPairs <=> <<crop, year>> \in complete
            /\ MergedPairs \subseteq CropsNamed(args.datasets) \X YearsNamed
            /\ \A e \in 1..Len(ret) :
                  \E p \in complete :
                      ret[e][1] \in {"yield_per_area_" \o clean_crop(p[1]),
                                     "yield_efficiency_" \o clean_crop(p[1])}

\* C9 witness: the merged table has a row, and a pair that is numeric in the
\* area and yield tables but not in the production table has none.
C9_Witness ==
    /\ op = "create_derived_features"
    /\ merged_df # <<>>
    /\ \E crop \in CropsNamed(args.datasets), year \in YearsNamed :
          /\ NumericIn(TableOf(args.datasets, "area"), crop, year)
          /\ NumericIn(TableOf(args.datasets, "yield"), crop, year)
          /\ HasYearColumn(TableOf(args.datasets, "production"))
          /\ ~NumericIn(TableOf(args.datasets, "production"), crop, year)
          /\ <<crop, year>> \notin MergedPairs

\* the merged rows of a crop with Area > 0
PositiveRows(crop) ==
    {k \in 1..Len(merged_df) :
        merged_df[k]["Crop"] = crop /\ QLt(Zero, merged_df[k]["Area"].val)}

\* the sum of the values f[lo], ..., f[hi]
RECURSIVE SumOf(_, _, _)
SumOf(f, lo, hi) ==
    IF lo > hi THEN Zero
    ELSE IF lo = hi THEN f[lo]
    ELSE LET mid == (lo + hi) \div 2
         IN  QAdd(SumOf(f, lo, mid), SumOf(f, mid + 1, hi))

\* the mean of F over the rows S of the merged table
MeanOver(S, F(_)) ==
    LET f == [k \in 1..Len(merged_df) |-> IF k \in S THEN F(k) ELSE Zero] \o <<>>
    IN  QDiv(SumOf(f, 1, Len(merged_df)), QInt(Cardinality(S)))

ProductionPerArea(k) == QDiv(merged_df[k]["Production"].val, merged_df[k]["Area"].val)
YieldPerArea(k) == QDiv(merged_df[k]["Yield"].val, merged_df[k]["Area"].val)

MergedCrops == {merged_df[k]["Crop"] : k \in 1..Len(merged_df)}

\* the entries of a crop are as C10 states them
EntriesAsStated(crop) ==
    LET rows == PositiveRows(crop)
        ypa == "yield_per_area_" \o clean_crop(crop)
        ye == "yield_efficiency_" \o clean_crop(crop)
    IN  IF rows # {}
        THEN /\ Has(ret, ypa) /\ Get(ret, ypa) = Num(MeanOver(rows, ProductionPerArea))
             /\ Has(ret, ye) /\ Get(ret, ye) = Num(MeanOver(rows, YieldPerArea))
        ELSE ~Has(ret, ypa) /\ ~Has(ret, ye)

\* C10: a crop with a merged row of Area > 0 has yield_per_area = the mean of
\* Production/Area and yield_efficiency = the mean of Yield/Area over its rows
\* of Area > 0, and a crop without such a row has no entry in the output.
C10_MeansOverPositiveArea ==
    op = "create_derived_features" => \A crop \in MergedCrops : EntriesAsStated(crop)

\* two crops of the merged table are written under one feature key
KeyClash ==
    \E c1, c2 \in MergedCrops : c1 # c2 /\ clean_crop(c1) = clean_crop(c2)

\* the same for the requests where every crop has a feature key of its own
C10_MeansWithoutKeyClash ==
    (op = "create_derived_features" /\ ~KeyClash) =>
        \A crop \in MergedCrops : EntriesAsStated(crop)

\* the reference observation alone: Rice has 2.5 and 0.0025
C10_ReferenceReached ==
    /\ op = "create_derived_features"
    /\ ~KeyClash
    /\ PositiveRows("Rice") # {}
    /\ \A k \in PositiveRows("Rice") :
          /\ merged_df[k]["Area"] = Num(QInt(1000))
          /\ merged_df[k]["Yield"] = Num(Q(5, 2))
          /\ merged_df[k]["Production"] = Num(QInt(2500))
    /\ Get(ret, "yield_per_area_Rice") = Num(Q(5, 2))
    /\ Get(ret, "yield_efficiency_Rice") = Num(Q(1, 400))

\* a request with a key clash, where a crop's entry is another crop's mean
C10_ClashReached ==
    /\ op = "create_derived_features"
    /\ KeyClash
    /\ \E crop \in MergedCrops : ~EntriesAsStated(crop)

----------------------------------------------------------------------------
(* Properties of the merger's error handling.                              *)

\* a table that is absent, has no Year column or has no rows
Unusable(df) == df.kind = "none" \/ ~HasYearColumn(df) \/ df.rows = <<>>

AllUnusable(datasets) == \A key \in DataTypes : Unusable(TableOf(datasets, key))

\* C11: when the area, the yield or the production table is absent, has no
\* Year column or has no rows, create_derived_features returns the empty
\* mapping and raises no exception.
C11_EmptyWhenTableUnusable ==
    (/\ op = "create_derived_features"
     /\ \E key \in DataTypes : Unusable(TableOf(args.datasets, key)))
    => (pc = "returned" /\ ret = <<>>)

\* the same for the calls that return: the value is the empty mapping
C11_EmptyWhenReturned ==
    (/\ op = "create_derived_features" /\ pc = "returned"
     /\ \E key \in DataTypes : Unusable(TableOf(args.datasets, key)))
    => ret = <<>>

\* all three tables are unusable, one of them for having no rows
C11_AllEmptyReached ==
    /\ op = "create_derived_features" /\ pc = "returned"
    /\ AllUnusable(args.datasets)
    /\ HasYearColumn(TableOf(args.datasets, "area"))
    /\ ret = <<>>

\* an unusable table next to a table whose reshaping raises
C11_RaisedReached ==
    /\ op = "create_derived_features" /\ pc = "raised"
    /\ \E key \in DataTypes : Unusable(TableOf(args.datasets, key))

\* a step of the merge fails: the reshaping of a table, or a merge
ReshapeFails(datasets) ==
    \E key \in DataTypes : long_forms(datasets)[key].kind = "raise"
MergeFails(datasets) ==
    LET long == long_forms(datasets)
    IN  (\A key \in DataTypes : long[key].kind = "frame") /\ try_raises(long)

\* C12: whenever a step of the merge fails with an exception, the exception
\* does not reach the caller of create_derived_features and the mapping it
\* returns is empty.
C12_ExceptionsCaught ==
    (/\ op = "create_derived_features"
     /\ ReshapeFails(args.datasets) \/ MergeFails(args.datasets))
    => (pc = "returned" /\ ret = <<>>)

\* the same for the exceptions of the try block alone
C12_MergeExceptionsCaught ==
    (op = "create_derived_features" /\ MergeFails(args.datasets))
    => (pc = "returned" /\ ret = <<>>)

\* a merge has failed on tables with rows of a pair in common
C12_CaughtReached ==
    /\ op = "create_derived_features" /\ pc = "returned"
    /\ MergeFails(args.datasets)

\* a reshaping has failed and the caller has the exception
C12_RaisedReached ==
    /\ op = "create_derived_features" /\ pc = "raised"
    /\ ReshapeFails(args.datasets)

----------------------------------------------------------------------------
(* Properties of the merged table and of the long form.                    *)

\* the rows of a wide table have pairwise distinct Year values
DistinctYears(df) ==
    \A i, k \in 1..Len(df.rows) :
        i # k => ~SameValue(df.rows[i][ColumnIndex(df, "Year")],
                            df.rows[k][ColumnIndex(df, "Year")])

\* the columns of a wide table have pairwise distinct names
DistinctNames(df) ==
    \A j, k \in 1..Len(df.columns) : j # k => df.columns[j] # df.columns[k]

\* the columns of a wide table have pairwise distinct normalized names
DistinctNormalizedNames(df) ==
    \A j, k \in 1..Len(df.columns) :
        j # k => standardize_crop_names(df.columns[j]) # standardize_crop_names(df.columns[k])

\* no two rows of the merged table have the same Crop and Year
OneRowPerPair ==
    \A k1, k2 \in 1..Len(merged_df) :
        k1 # k2 => ~(/\ merged_df[k1]["Crop"] = merged_df[k2]["Crop"]
                     /\ SameValue(merged_df[k1]["Year"], merged_df[k2]["Year"]))

\* C13: for three wide tables whose rows have pairwise distinct Year values
\* and whose crop columns have pairwise distinct names, the merged table
\* holds at most one row per (Crop, Year) pair, Crop the normalized name.
C13_OneRowPerCropYear ==
    (/\ op = "create_derived_features" /\ pc = "returned"
     /\ \A key \in DataTypes :
           LET df == TableOf(args.datasets, key)
           IN  HasYearColumn(df) /\ DistinctYears(df) /\ DistinctNames(df))
    => OneRowPerPair

\* the same for tables whose crop columns differ in their normalized names
C13_OneRowWhenCropsDistinct ==
    (/\ op = "create_derived_features" /\ pc = "returned"
     /\ \A key \in DataTypes :
           LET df == TableOf(args.datasets, key)
           IN  HasYearColumn(df) /\ DistinctYears(df) /\ DistinctNormalizedNames(df))
    => OneRowPerPair

\* tables of distinct years and crops, merged to a row for each of several pairs
C13_DistinctReached ==
    /\ op = "create_derived_features" /\ pc = "returned"
    /\ \A key \in DataTypes :
          LET df == TableOf(args.datasets, key)
          IN  HasYearColumn(df) /\ DistinctYears(df) /\ DistinctNormalizedNames(df)
    /\ Len(merged_df) > 2
    /\ OneRowPerPair

\* two columns of distinct names hold one crop: a pair has several merged rows
C13_DuplicateReached ==
    /\ op = "create_derived_features" /\ pc = "returned"
    /\ \A key \in DataTypes :
          LET df == TableOf(args.datasets, key)
          IN  HasYearColumn(df) /\ DistinctYears(df) /\ DistinctNames(df)
    /\ ~OneRowPerPair

\* the crop columns of a wide table
CropColumns(df) == {j \in 1..Len(df.columns) : df.columns[j] # "Year"}

\* a cell that holds a number, or the text of one
NumericCell(cell) ==
    cell.kind = "num" \/ (cell.kind = "str" /\ IsNumberText(strip(cell.val)))
NumberOf(cell) == IF cell.kind = "num" THEN cell ELSE Num(NumberOfText(strip(cell.val)))

\* the (Year, Crop, Value) entry of row i and column j of a wide table
Entry(df, data_type, i, crop, value) ==
    ("Year" :> df.rows[i][ColumnIndex(df, "Year")])
    @@ ("Crop" :> crop) @@ (capitalize(data_type) :> value)

\* the long form before coercion and dropping: one entry per row and crop column
MeltedAsStated(df, data_type) ==
    LET crop_columns == SelectSeq([j \in 1..Len(df.columns) |-> j],
                                  LAMBDA j : df.columns[j] # "Year")
        melted == melt(df, crop_columns, capitalize(data_type))
    IN  /\ Len(melted) = Len(df.rows) * Cardinality(CropColumns(df))
        /\ \A i \in 1..Len(df.rows), j \in CropColumns(df) :
              \E k \in 1..Len(melted) :
                  melted[k] = Entry(df, data_type, i, df.columns[j], df.rows[i][j])

\* rows holds one entry for each cell of the set cells, and nothing else
HoldsExactly(rows, df, data_type, cells) ==
    /\ Len(rows) = Cardinality(cells)
    /\ \A c \in cells :
          \E k \in 1..Len(rows) :
              rows[k] = Entry(df, data_type, c[1], standardize_crop_names(df.columns[c[2]]),
                              NumberOf(df.rows[c[1]][c[2]]))
    /\ \A k \in 1..Len(rows) :
          \E c \in cells :
              rows[k] = Entry(df, data_type, c[1], standardize_crop_names(df.columns[c[2]]),
                              NumberOf(df.rows[c[1]][c[2]]))

NumericCells(df) ==
    {c \in (1..Len(df.rows)) \X CropColumns(df) : NumericCell(df.rows[c[1]][c[2]])}

\* the numeric cells of the rows whose Year is not missing
NumericCellsOfKnownYear(df) ==
    {c \in NumericCells(df) : ~isna(df.rows[c[1]][ColumnIndex(df, "Year")])}

PreparedFrame ==
    /\ op = "prepare_crop_data_for_merging" /\ pc = "returned"
    /\ HasYearColumn(args.df)

C14_WitnessMissingYear ==
    /\ PreparedFrame
    /\ NumericCellsOfKnownYear(args.df) # NumericCells(args.df)
    /\ Len(ret.rows) < Cardinality(NumericCells(args.df))

\* C15: for a table without a Year column, and for an absent table,
\* prepare_crop_data_for_merging returns None and raises no exception.
C15_NoneWithoutYear ==
    (op = "prepare_crop_data_for_merging" /\ ~HasYearColumn(args.df))
    => (pc = "returned" /\ ret = None)

\* a table with crop columns, one of them labelled by an int, and no Year column
C15_Witness ==
    /\ op = "prepare_crop_data_for_merging" /\ pc = "returned"
    /\ args.df.kind = "frame"
    /\ Len(args.df.columns) > 1 /\ Len(args.df.rows) > 0
    /\ ~HasYearColumn(args.df)
    /\ \E j \in 1..Len(args.df.columns) : args.df.columns[j] \in IntLabels
    /\ ret = None

\* the absent table
C15_WitnessAbsent ==
    /\ op = "prepare_crop_data_for_merging" /\ pc = "returned"
    /\ args.df = None
    /\ ret = None

----------------------------------------------------------------------------
(* Properties of the normalizer.                                           *)

Normalized == op \in {"standardize_crop_names", "module_standardize_crop_names"}

AliasKeys == Range(Keys(standardizations))

\* C16: for every alias key of the standardization table the normalizer
\* returns the canonical name the table maps the key to, and the method and
\* the module-level function return the same result for every input string.
C16_AliasesAndCopiesAgree ==
    /\ (op = "standardize_crop_names" /\ pc = "returned")
       => /\ args.name \in AliasKeys => ret = Get(standardizations, args.name)
          /\ ~module_standardize_crop_names_raises(args.name)
          /\ ret = module_standardize_crop_names(args.name)
    /\ (op = "module_standardize_crop_names" /\ pc = "returned")
       => /\ args.name \in AliasKeys => ret = Get(standardizations, args.name)
          /\ ~standardize_crop_names_raises(args.name)
          /\ ret = standardize_crop_names(args.name)
    /\ (Normalized /\ pc = "raised")
       => /\ standardize_crop_names_raises(args.name)
          /\ module_standardize_crop_names_raises(args.name)

\* the last alias of the table has gone through the module-level copy
C16_Witness ==
    /\ op = "module_standardize_crop_names" /\ pc = "returned"
    /\ args.name = "Food Grains (Pulses) - Other Pulses (000 tonnes)"
    /\ ret = "Other Pulses"

\* an alias has gone through the method
C16_WitnessMethod ==
    /\ op = "standardize_crop_names" /\ pc = "returned"
    /\ args.name = "Foodgrains(pulses) - Other pulses"
    /\ ret = "Other Pulses"

Contains(s, c) == \E i \in 1..Len(s) : CharAt(s, i) = c

CleanedAway == {" ", "-", "(", ")", ","}

\* C17: for an input that after stripping is no alias key the result holds no
\* space, hyphen, parenthesis or comma; for the empty string the result is
\* the empty string.
C17_FallbackHasNoSeparators ==
    (Normalized /\ pc = "returned")
    => /\ strip(args.name) \notin AliasKeys => \A c \in CleanedAway : ~Contains(ret, c)
       /\ args.name = "" => ret = ""

\* a name with all the characters the fallback cleans away
C17_Witness ==
    /\ op = "standardize_crop_names" /\ pc = "returned"
    /\ \A c \in CleanedAway : Contains(args.name, c)
    /\ strip(args.name) \notin AliasKeys
    /\ ret = "Sugar_cane_raw_000_tonnes"

\* the empty string
C17_WitnessEmpty ==
    /\ op = "standardize_crop_names" /\ pc = "returned"
    /\ args.name = "" /\ ret = ""

----------------------------------------------------------------------------
(* Properties of the composer's layout, yield and tips.                    *)

\* C18: determine_layout returns 'Boundary Planting' when the texture is
\* 'Sandy' and the rainfall is below 600, otherwise 'Mixed System' when the
\* rainfall is above 1200, otherwise 'Alley Cropping'; a rainfall of exactly
\* 600 or exactly 1200 gives 'Alley Cropping'.
C18_LayoutRule ==
    op = "determine_layout" =>
        /\ ret[1] = IF args.soil.texture = "Sandy" /\ args.weather.rainfall_mm < 600
                    THEN "Boundary Planting"
                    ELSE IF args.weather.rainfall_mm > 1200 THEN "Mixed System"
                    ELSE "Alley Cropping"
        /\ args.weather.rainfall_mm \in {600, 1200} => ret[1] = "Alley Cropping"

\* sandy soil at exactly 600 mm
C18_Witness ==
    /\ op = "determine_layout"
    /\ args.soil.texture = "Sandy" /\ args.weather.rainfall_mm = 600
    /\ ret[1] = "Alley Cropping"

C18_WitnessBoundary ==
    /\ op = "determine_layout"
    /\ args.soil.texture = "Sandy" /\ args.weather.rainfall_mm = 599
    /\ ret[1] = "Boundary Planting"

C18_WitnessMixed ==
    /\ op = "determine_layout"
    /\ args.soil.texture = "Sandy" /\ args.weather.rainfall_mm = 1201
    /\ ret[1] = "Mixed System"

C18_WitnessUpperBound ==
    /\ op = "determine_layout"
    /\ args.weather.rainfall_mm = 1200
    /\ ret[1] = "Alley Cropping"

\* the base yield of a crop as C19 states it
StatedBaseYield(crop) ==
    CASE crop = "Maize" -> 4000
      [] crop = "Sorghum" -> 3000
      [] crop = "Cowpea" -> 1000
      [] crop = "Turmeric" -> 2000
      [] OTHER -> 2500

\* C19: estimate_yield returns base_yield * land_area_acres, the base yield
\* being 4000 for Maize, 3000 for Sorghum, 1000 for Cowpea, 2000 for Turmeric
\* and 2500 for every other crop; the expected_yield_kg of a Recommendation
\* is estimate_yield of its main crop and the land area.
C19_YieldIsBaseTimesArea ==
    /\ op = "estimate_yield"
       => ret = QMul(QInt(StatedBaseYield(args.main_crop)), args.land_area_acres)
    /\ op = "generate_recommendation"
       => ret.expected_yield_kg
              = QMul(QInt(StatedBaseYield(ret.main_crop)), args.land_area_acres)

\* a crop of the table on a fraction of an acre: Maize on 2.5 acres
C19_Witness ==
    /\ op = "estimate_yield"
    /\ args.main_crop = "Maize" /\ args.land_area_acres = Q(5, 2)
    /\ ret = QInt(10000)

\* a crop without a base yield of its own
C19_WitnessDefault ==
    /\ op = "estimate_yield"
    /\ args.main_crop = "Rice" /\ args.land_area_acres = QInt(2)
    /\ ret = QInt(5000)

\* the Recommendation of the usage example
C19_WitnessRecommendation ==
    /\ op = "generate_recommendation"
    /\ args.land_area_acres = ExampleArea
    /\ ret.main_crop \in {"Maize", "Sorghum"}
    /\ ret.expected_yield_kg = QInt(StatedBaseYield(ret.main_crop) * 5)

\* the number of the conditions of C20 that hold
TipConditions(soil, weather) ==
    (IF soil.organic_carbon < 100 THEN 1 ELSE 0)
    + (IF soil.ph < 55 \/ soil.ph > 80 THEN 1 ELSE 0)
    + (IF weather.rainfall_mm < 500 \/ weather.rainfall_mm > 1500 THEN 1 ELSE 0)

\* C20: generate_sustainability_tips returns the six baseline tips in their
\* order, followed by one tip for each condition that holds among: organic
\* carbon below 1.0; pH outside [5.5, 8.0]; rainfall outside [500, 1500]; the
\* result has 6 + (number of conditions) entries, between 6 and 9.
C20_TipsBaselinePlusConditions ==
    op = "generate_sustainability_tips" =>
        LET soil == args.soil
            weather == args.weather
            extra == SubSeq(ret, 7, Len(ret))
        IN  /\ Len(TipsBase) = 6
            /\ Len(ret) = 6 + TipConditions(soil, weather)
            /\ Len(ret) \in 6..9
            /\ SubSeq(ret, 1, 6) = TipsBase
            /\ soil.organic_carbon < 100 <=> TipLowCarbon \in Range(extra)
            /\ soil.ph < 55 <=> TipAcidic \in Range(extra)
            /\ soil.ph > 80 <=> TipAlkaline \in Range(extra)
            /\ weather.rainfall_mm < 500 <=> TipLowRain \in Range(extra)
            /\ weather.rainfall_mm > 1500 <=> TipHighRain \in Range(extra)

\* every bound met exactly: the six baseline tips alone
C20_Witness ==
    /\ op = "generate_sustainability_tips"
    /\ args.soil.organic_carbon = 100 /\ args.soil.ph \in {55, 80}
    /\ args.weather.rainfall_mm \in {500, 1500}
    /\ ret = TipsBase

\* all three conditions hold: nine tips
C20_WitnessAll ==
    /\ op = "generate_sustainability_tips"
    /\ Len(ret) = 9
    /\ SubSeq(ret, 7, 9) = <<TipLowCarbon, TipAlkaline, TipHighRain>>

----------------------------------------------------------------------------
(* Properties of the Recommendation.                                       *)

\* C21: for every input of generate_recommendation the trees field is the
\* first two entries of the tree table, Mango then Gliricidia, whatever the
\* soil, the weather, the budget, the area and the location are.
C21_TreesAreFirstTwoOfTable ==
    op = "generate_recommendation" =>
        /\ ret.trees = <<"Mango", "Gliricidia">>
        /\ ret.trees = <<TreeRules[1][1], TreeRules[2][1]>>

\* a poor, dry plot without budget gets the same two trees
C21_Witness ==
    /\ op = "generate_recommendation"
    /\ args.soil = PoorSoil /\ args.weather = DryWeather
    /\ args.budget_inr = 0 /\ args.land_area_acres = Zero
    /\ ret.trees = <<"Mango", "Gliricidia">>

\* the call of the reference scenario
ReferenceScenario ==
    /\ op = "generate_recommendation"
    /\ args.soil = [ph |-> 67, organic_carbon |-> 120, texture |-> "Loam"]
    /\ args.weather = [rainfall_mm |-> 850, temperature_c |-> 28]
    /\ args.budget_inr = 60000
    /\ args.land_area_acres = QInt(5)

\* the rule ranges of a crop contain the pH, temperature and rainfall given
RangesContain(crop, ph, temperature_c, rainfall_mm) ==
    LET rule == RuleOf(crop)
    IN  /\ rule.ph_min <= ph /\ ph <= rule.ph_max
        /\ rule.temp_min <= temperature_c /\ temperature_c <= rule.temp_max
        /\ rule.rainfall_min <= rainfall_mm /\ rainfall_mm <= rule.rainfall_max

\* the total income of a Recommendation: profit before the cost is taken off
TotalIncome(r, land_area_acres) ==
    C7Profit([main_crop |-> r.main_crop, intercrop |-> r.intercrop, trees |-> r.trees,
              land_area_acres |-> land_area_acres, budget_inr |-> 0])

\* C22: in the reference scenario (pH 6.7, organic carbon 1.2, Loam, 850 mm,
\* 28 degrees, budget 60000, 5 acres) the main crop is Maize or Sorghum, a crop
\* whose rule ranges contain pH 6.7, 28 degrees and 850 mm; expected_yield_kg
\* is the base yield of the main crop times 5; roi = (income - 36000) / 36000.
C22_ReferenceScenario ==
    ReferenceScenario =>
        /\ ret.main_crop \in {"Maize", "Sorghum"}
        /\ RangesContain(ret.main_crop, 67, 28, 850)
        /\ ret.expected_yield_kg = QInt(StatedBaseYield(ret.main_crop) * 5)
        /\ ret.roi = QDiv(QSub(TotalIncome(ret, QInt(5)), QInt(36000)), QInt(36000))

\* the reference scenario has been answered: Maize, 20000 kg, roi 1639/36
C22_Witness ==
    /\ ReferenceScenario
    /\ ret.main_crop = "Maize"
    /\ ret.expected_yield_kg = QInt(20000)
    /\ ret.roi = Q(1639, 36)

----------------------------------------------------------------------------
(* Further properties of the suitability scorer.                           *)

\* C23: for a crop identifier that is no key of the crop rule table, and
\* every soil and weather, assess_soil_suitability and
\* assess_weather_suitability return exactly 0.0 and raise no exception.
C23_UnknownCropScoresZero ==
    (/\ op \in {"assess_soil_suitability", "assess_weather_suitability"}
     /\ args.crop_name \notin KnownCrops)
    => (pc = "returned" /\ ret = Zero)

\* a key in lower case is no key: 'maize' under the best weather scores 0
C23_Witness ==
    /\ op = "assess_weather_suitability" /\ pc = "returned"
    /\ args.crop_name = "maize"
    /\ args.weather.temperature_c = 28 /\ args.weather.rainfall_mm = 850
    /\ ret = Zero

C23_WitnessSoil ==
    /\ op = "assess_soil_suitability" /\ pc = "returned"
    /\ args.crop_name = "Wheat"
    /\ args.soil.organic_carbon >= 200
    /\ ret = Zero

\* organic carbon from 0.5 to 2.0 per cent, in hundredths
CarbonRange == 50..200

\* C24: for a crop of the rule table and two soils that differ in organic
\* carbon only, with values c1 <= c2 between 0.5 and 2.0, the soil suitability
\* for c2 is at least the soil suitability for c1.
C24_MonotoneInOrganicCarbon ==
    (/\ op = "assess_soil_suitability"
     /\ args.crop_name \in KnownCrops
     /\ args.soil.organic_carbon \in CarbonRange)
    => \A c1 \in CarbonRange :
          c1 <= args.soil.organic_carbon
          => QLe(assess_soil_suitability(crop_suitability,
                                         [args.soil EXCEPT !.organic_carbon = c1],
                                         args.crop_name),
                 ret)

\* Maize on loam of pH 6.7: 1.0 at 2.0 per cent, 0.7 at 0.5 per cent
C24_Witness ==
    /\ op = "assess_soil_suitability"
    /\ args.crop_name = "Maize"
    /\ args.soil = [ph |-> 67, organic_carbon |-> 200, texture |-> "Loam"]
    /\ ret = One
    /\ assess_soil_suitability(crop_suitability,
                               [args.soil EXCEPT !.organic_carbon = 50], "Maize") = Q(7, 10)

----------------------------------------------------------------------------
(* Properties of the engine's tables.                                      *)

\* C25: after any sequence of calls of the engine's operations its
\* crop_suitability, tree_suitability, layout_patterns and
\* sustainability_tips_base tables are what they were at construction;
\* appending to or removing from the trees or sustainability_tips list of a
\* returned Recommendation does not change them either.
C25_TablesAsConstructed ==
    /\ crop_suitability = CropRules
    /\ tree_suitability = TreeRules
    /\ layout_patterns = LayoutPatterns
    /\ sustainability_tips_base = TipsBase

\* after an earlier generate_recommendation call, the caller has appended to
\* the nine tips of a later Recommendation
C25_Witness ==
    /\ op = "edit_returned"
    /\ kept # NoValue
    /\ Len(ret.sustainability_tips) = 10
    /\ sustainability_tips_base = TipsBase

\* the caller has removed a tree from a Recommendation
C25_WitnessTrees ==
    /\ op = "edit_returned"
    /\ ret.trees = <<"Mango">>
    /\ tree_suitability = TreeRules


----------------------------------------------------------------------------
(* C26: the live weather fetch and /predict/realtime.                      *)

\* a requested parameter is in the body and its dict is empty
SomeParameterEmpty(response) ==
    /\ response.kind = "json"
    /\ Has(response.data, "properties")
    /\ Has(Get(response.data, "properties"), "parameter")
    /\ \E i \in 1..Len(ParameterNames) :
          /\ Has(parameters_of(response), ParameterNames[i])
          /\ Get(parameters_of(response), ParameterNames[i]) = <<>>

\* the request raises, the body is not the expected JSON, or a requested
\* parameter is missing or empty in it
FetchFails(response) == fetch_raises(response) \/ SomeParameterEmpty(response)

\* a /predict/realtime request that got as far as the fetch has been answered
RealtimeAnswered == pc = "returned" /\ op = "predict_realtime" /\ args.data # <<>>

\* C26: whenever the live weather fetch fails (the request raises, the
\* response is not the expected JSON, or a requested parameter is missing or
\* empty in it), /predict/realtime answers with status 200 and the weather
\* profile it uses is the default (28, 65, 980, 5.5).
C26_DefaultProfileWhenFetchFails ==
    (RealtimeAnswered /\ FetchFails(args.response)) =>
        /\ ret.status = 200
        /\ ret.weather_data = DefaultWeather

\* what holds of the code: an exception inside the fetch (request, JSON,
\* missing key) gives the default profile and status 200
C26_DefaultProfileWhenFetchRaises ==
    (RealtimeAnswered /\ fetch_raises(args.response)) =>
        /\ ret.status = 200
        /\ ret.weather_data = DefaultWeather

C26_RaisesReached ==
    /\ RealtimeAnswered
    /\ args.response.kind = "json"
    /\ fetch_raises(args.response)
    /\ ret.status = 200

\* an empty rainfall or temperature parameter: the handler answers 500
C26_EmptyParameterReached ==
    /\ RealtimeAnswered
    /\ SomeParameterEmpty(args.response)
    /\ ~fetch_raises(args.response)
    /\ ret.status = 500

\* an empty humidity parameter: status 200 with a profile that is not the default
C26_PartialProfileReached ==
    /\ RealtimeAnswered
    /\ SomeParameterEmpty(args.response)
    /\ ret.status = 200
    /\ ret.weather_data # DefaultWeather
    /\ Get(ret.weather_data, "avg_humidity") = None

----------------------------------------------------------------------------
(* C27: missing cells in the preprocessing pipeline.                       *)

\* the pipeline has returned its features
Preprocessed == pc = "returned" /\ op = "create_features"

\* the raw table a loader was given: the table, or the text of the file
RawTableOf(data) == IF data.kind = "path" THEN Get(Files, data.path) ELSE data

\* a blank cell or a cell holding 'NA'
BlankOrNA(cell) == cell.kind = "nan" \/ (cell.kind = "str" /\ cell.val \in {"", "NA"})

\* the cells of a raw table at a known year, as <<row, column>>
CropCells(df) ==
    IF HasYearColumn(df)
    THEN {c \in (1..Len(df.rows)) \X (1..Len(df.columns)) :
             /\ df.columns[c[2]] # "Year"
             /\ to_numeric(df.rows[c[1]][ColumnIndex(df, "Year")]).kind = "num"}
    ELSE {}

PairOf(df, c) ==
    <<standardize_crop_names(df.columns[c[2]]),
      to_numeric(df.rows[c[1]][ColumnIndex(df, "Year")])>>

\* the (crop, year) pairs for which some raw table of the request has a
\* blank or 'NA' cell
MissingPairs(raw) ==
    UNION {LET df == RawTableOf(raw[key])
           IN  {PairOf(df, c) : c \in {d \in CropCells(df) : BlankOrNA(df.rows[d[1]][d[2]])}} :
           key \in DOMAIN raw}

\* the same for the cells that hold a text in a table given as a DataFrame,
\* under a label without the loader's keyword
MissingTextPairs(raw) ==
    UNION {LET df == raw[key]
           IN  IF df.kind # "frame" THEN {}
               ELSE {PairOf(df, c) :
                        c \in {d \in CropCells(df) :
                                  /\ df.rows[d[1]][d[2]].kind = "str"
                                  /\ BlankOrNA(df.rows[d[1]][d[2]])
                                  /\ ~in_lower(key, df.columns[d[2]])}} :
           key \in DOMAIN raw}

\* the merged observations the means are taken over
Observations == positive_area(merged_df)

Observed(pair) ==
    \E k \in 1..Len(Observations) :
        /\ Observations[k]["Crop"] = pair[1]
        /\ SameValue(Observations[k]["Year"], pair[2])

\* C27: in the pipeline (the loaders, then create_features) a blank or 'NA'
\* cell for crop X at year Y leaves no merged observation for (X, Y): the year
\* is not part of X's means and is not counted as 0.
C27_MissingCellLeavesNoObservation ==
    Preprocessed => \A pair \in MissingPairs(args.raw) : ~Observed(pair)

\* what holds of the code: a text cell '' or 'NA' of a table handed over as a
\* DataFrame, in a column the loader does not coerce, leaves no observation
C27_TextCellLeavesNoObservation ==
    Preprocessed => \A pair \in MissingTextPairs(args.raw) : ~Observed(pair)

C27_TextCellReached ==
    /\ Preprocessed
    /\ MissingTextPairs(args.raw) # {}
    /\ ret # <<>>

\* a blank yield cell is an observation with Yield 0, and its ratio 0 is part
\* of the crop's yield_efficiency mean
C27_CountedAsZeroReached ==
    /\ Preprocessed
    /\ \E pair \in MissingPairs(args.raw) :
          \E k \in 1..Len(Observations) :
              /\ Observations[k]["Crop"] = pair[1]
              /\ SameValue(Observations[k]["Year"], pair[2])
              /\ Observations[k]["Yield"] = Num(Zero)
              /\ Has(ret, "yield_efficiency_" \o clean_crop(pair[1]))
    /\ args.raw.yield.kind = "frame"
    /\ ~in_lower("yield", args.raw.yield.columns[2])

\* 'NA' in a CSV file is read as NaN and filled with 0 as well
C27_FileReached ==
    /\ Preprocessed
    /\ args.raw.production.kind = "path"
    /\ \E pair \in MissingPairs(args.raw) :
          \E k \in 1..Len(Observations) :
              /\ Observations[k]["Crop"] = pair[1]
              /\ SameValue(Observations[k]["Year"], pair[2])
              /\ Observations[k]["Production"] = Num(Zero)

----------------------------------------------------------------------------
(* C28: the two crops of a recommendation.                                 *)

\* C28: for every request the main_crop and the intercrop of the returned
\* Recommendation are two different crops.
C28_MainCropAndIntercropDiffer ==
    (op = "generate_recommendation" /\ pc = "returned") => ret.main_crop # ret.intercrop

\* the pulse leads the ranking and the intercrop is a later candidate
C28_Witness ==
    /\ op = "generate_recommendation" /\ pc = "returned"
    /\ ret.main_crop = "Cowpea"
    /\ ret.intercrop \in {"Sorghum", "Gliricidia", "Mango", "Maize", "Turmeric"}

\* no candidate clears the threshold: the fixed pair Maize and Cowpea
C28_WitnessFallback ==
    /\ op = "generate_recommendation" /\ pc = "returned"
    /\ recommend_crops(crop_suitability, args.soil, args.weather) = <<>>
    /\ ret.main_crop = "Maize" /\ ret.intercrop = "Cowpea"

\* no later candidate of another type: the default intercrop beside another main crop
C28_WitnessDefault ==
    /\ op = "generate_recommendation" /\ pc = "returned"
    /\ recommend_crops(crop_suitability, args.soil, args.weather) # <<>>
    /\ ret.main_crop # "Cowpea" /\ ret.intercrop = "Cowpea"

----------------------------------------------------------------------------
(* The retraining script (src/models/retrain_model.py).  main is a         *)
(* sequence of calls; main_pc is the call it is at.  A feedback record is  *)
(* its prediction_id ("" when it has none), a training record the          *)
(* prediction_id it was made from.  The clock counts the runs and stands   *)
(* for datetime.now().                                                     *)

MaxRuns == 2

Versions == {"", "7"}

\* the feedback of the last days
FeedbackLists == {<<>>, <<"">>, <<"p1">>, <<"p1", "p2", "p1">>}

Printed(line) == printed' = Append(printed, line)

Hub == <<pc, op, args, ret, tables, kept, merged_df, yield_model, roi_model, X>>

\* args.version or datetime.now().strftime(...)
version_of(version, clock) == IF version # "" THEN version ELSE "t" \o str_of(clock)

\* prediction_ids of main: the ids of the feedback, without duplicates
prediction_ids(feedback_data) ==
    {feedback_data[i] : i \in 1..Len(feedback_data)} \ {""}

\* prepare_training_data: a record per feedback whose prediction was fetched
prepare_training_data(feedback_data, prediction_data) ==
    SelectSeq(feedback_data, LAMBDA pred_id : pred_id # "" /\ pred_id \in prediction_data)

\* retrain_models without an exception: both models trained on the mock datasets
retrained(class) == train(class, NewModelObject, NoTables)

model_dir(version) == "models/saved_models/v" \o version

\* main: parse_args, and the two prints
ParseArgs(versions) ==
    /\ pc = "idle"
    /\ main_pc \in {"start", "done"}
    /\ run.clock < MaxRuns
    /\ \E version \in versions :
          run' = [NoRun EXCEPT !.clock = run.clock + 1,
                               !.version = version_of(version, run.clock + 1)]
    /\ printed' = <<"=== Digital Raitha Model Retraining ===">>
    /\ main_pc' = "parsed"
    /\ UNCHANGED <<Hub, disk, model_versions>>

\* db = initialize_firebase(); if not db: return
InitializeFirebase ==
    /\ pc = "idle"
    /\ main_pc = "parsed"
    /\ \E client \in BOOLEAN :
          /\ run' = [run EXCEPT !.db = client]
          /\ IF client
             THEN /\ Printed("Firebase Admin SDK initialized successfully")
                  /\ main_pc' = "initialized"
             ELSE /\ Printed("Failed to initialize Firebase. Exiting.")
                  /\ main_pc' = "done"
    /\ UNCHANGED <<Hub, disk, model_versions>>

\* feedback_data = fetch_feedback_data(db, args.days); if not feedback_data: return
FetchFeedbackData(feedbacks) ==
    /\ pc = "idle"
    /\ main_pc = "initialized"
    /\ \E feedback_data \in feedbacks :
          /\ run' = [run EXCEPT !.feedback_data = feedback_data]
          /\ IF feedback_data # <<>>
             THEN /\ Printed("Fetched feedback records")
                  /\ main_pc' = "fetched"
             ELSE /\ Printed("No feedback data available for retraining")
                  /\ main_pc' = "done"
    /\ UNCHANGED <<Hub, disk, model_versions>>

\* fetch_prediction_data and prepare_training_data; if training_data.empty: return
PrepareTrainingData ==
    /\ pc = "idle"
    /\ main_pc = "fetched"
    /\ \E prediction_data \in SUBSET prediction_ids(run.feedback_data) :
          LET training_data == prepare_training_data(run.feedback_data, prediction_data)
          IN  /\ run' = [run EXCEPT !.training_data = training_data]
              /\ IF training_data # <<>>
                 THEN /\ Printed("Prepared training records")
                      /\ main_pc' = "prepared"
                 ELSE /\ Printed("No training data prepared. Exiting.")
                      /\ main_pc' = "done"
    /\ UNCHANGED <<Hub, disk, model_versions>>

\* yield_model, roi_model = retrain_models(training_data): an exception of
\* the constructors or of train is caught and (None, None) returned
RetrainModels ==
    /\ pc = "idle"
    /\ main_pc = "prepared"
    /\ \E exception \in BOOLEAN :
          IF exception
          THEN /\ run' = [run EXCEPT !.yield_model = NoModel, !.roi_model = NoModel]
               /\ Printed("Error retraining models")
          ELSE /\ run' = [run EXCEPT !.yield_model = retrained("AgriYieldModel"),
                                     !.roi_model = retrained("AgriROIModel")]
               /\ Printed("Models retrained successfully")
    /\ main_pc' = "retrained"
    /\ UNCHANGED <<Hub, disk, model_versions>>

\* save_retrained_models(yield_model, roi_model, version): os.makedirs or a
\* save_model can raise, and the exception is caught
SaveRetrainedModels ==
    /\ pc = "idle"
    /\ main_pc = "retrained"
    /\ IF run.yield_model.created /\ run.roi_model.created
       THEN LET yield_files == saved_files("AgriYieldModel", run.yield_model,
                                           model_dir(run.version) \o "/yield_model")
                roi_files == saved_files("AgriROIModel", run.roi_model,
                                         model_dir(run.version) \o "/roi_model")
            IN  \E raised_at \in {"makedirs", "yield_model", "roi_model", "nowhere"} :
                   /\ disk' = CASE raised_at = "makedirs" -> disk
                                [] raised_at = "yield_model" -> disk
                                [] raised_at = "roi_model" -> written(yield_files, disk)
                                [] OTHER -> written(roi_files, written(yield_files, disk))
                   /\ IF raised_at = "nowhere"
                      THEN Printed("Retrained models saved to " \o model_dir(run.version))
                      ELSE Printed("Error saving retrained models")
       ELSE /\ Printed("No models to save")
            /\ UNCHANGED disk
    /\ main_pc' = "saved"
    /\ UNCHANGED <<Hub, run, model_versions>>

\* update_model_version_info(db, version, metrics): an exception of the add is caught
UpdateModelVersionInfo ==
    /\ pc = "idle"
    /\ main_pc = "saved"
    /\ LET version_info ==
               [version |-> run.version, timestamp |-> run.clock,
                training_data_points |-> Len(run.training_data)]
       IN  \E exception \in BOOLEAN :
              IF exception
              THEN /\ Printed("Error updating model version info")
                   /\ UNCHANGED model_versions
              ELSE /\ model_versions' = Append(model_versions, version_info)
                   /\ Printed("Model version information updated in Firebase")
    /\ main_pc' = "updated"
    /\ UNCHANGED <<Hub, run, disk>>

\* the last prints of main
ReportComplete ==
    /\ pc = "idle"
    /\ main_pc = "updated"
    /\ Printed("=== Retraining Complete ===")
    /\ main_pc' = "done"
    /\ UNCHANGED <<Hub, run, disk, model_versions>>

NextRetrain ==
    \/ ParseArgs(Versions)
    \/ InitializeFirebase
    \/ FetchFeedbackData(FeedbackLists)
    \/ PrepareTrainingData
    \/ RetrainModels
    \/ SaveRetrainedModels
    \/ UpdateModelVersionInfo
    \/ ReportComplete

SpecRetrain == Init /\ [][NextRetrain]_vars

----------------------------------------------------------------------------
(* C29: the names and the matrix of predict                                *)

\* a predict call of a trained object has ended, by return or by exception
PredictDone ==
    /\ pc \in {"returned", "raised"}
    /\ op = "predict"
    /\ X # NoValue

\* C29: after train or load_model, a predict call leaves feature_names equal
\* to the names of training time, and the matrix handed to the estimators has
\* exactly those columns in that order, the ones missing from the input
\* filled with 0, whatever datasets the call is given.
C29_PredictKeepsTrainingNames ==
    PredictDone =>
        LET model == ModelOf(args.class)
            made == prepared[args.class, args.datasets]
        IN  /\ model.feature_names = model.fitted
            /\ ColumnNamesOf(X.columns) = model.fitted
            /\ \A i \in 1..Len(X.columns) : X.columns[i].filled <=> X.columns[i].name \notin Range(made)

\* what the code does keep: predict leaves the fitted columns alone and
\* hands over the columns made from this call's datasets, none filled
C29_PredictUsesInputNames ==
    PredictDone =>
        LET model == ModelOf(args.class)
            made == prepared[args.class, args.datasets]
        IN  /\ model.feature_names = made
            /\ ColumnNamesOf(X.columns) = made
            /\ \A i \in 1..Len(X.columns) : ~X.columns[i].filled

\* a predict after train with the tables of the API, all None
C29_NoColumnsReached ==
    /\ PredictDone
    /\ args.datasets = NoTables
    /\ ModelOf(args.class).fitted = sample_columns(args.class)
    /\ X.columns = <<>>

\* a predict that returned with as many columns as the fitted ones
C29_ReturnedReached ==
    /\ PredictDone
    /\ pc = "returned"
    /\ ColumnNamesOf(X.columns) # ModelOf(args.class).fitted

----------------------------------------------------------------------------
(* C30: the version record and the report of the retraining script         *)

\* a version record was written in this run
RecordedThisRun ==
    \E i \in 1..Len(model_versions) : model_versions[i].timestamp = run.clock

ReportedComplete == "=== Retraining Complete ===" \in Range(printed)

\* retrain_models returned two models in this run
RetrainedThisRun == run.yield_model.created /\ run.roi_model.created

\* save_retrained_models saved both models in this run
SavedThisRun ==
    ("Retrained models saved to " \o model_dir(run.version)) \in Range(printed)

\* C30: in every run of main a version record is written and 'Retraining
\* Complete' is reported only if both models were retrained and saved in
\* that run; when retrain_models returns (None, None) or saving fails, no
\* version record is written.
C30_RecordOnlyWhenRetrainedAndSaved ==
    (RecordedThisRun \/ ReportedComplete) => (RetrainedThisRun /\ SavedThisRun)

\* what the code does keep: a record and the report need training data
C30_RecordOnlyWithTrainingData ==
    (RecordedThisRun \/ ReportedComplete) => (run.db /\ run.training_data # <<>>)

\* a run that has written a record without models
C30_RecordWithoutModelsReached ==
    /\ RecordedThisRun
    /\ ReportedComplete
    /\ ~RetrainedThisRun

\* a run that has written a record although saving failed
C30_RecordWithoutSaveReached ==
    /\ RecordedThisRun
    /\ RetrainedThisRun
    /\ ~SavedThisRun

\* a run that has retrained, saved, recorded and reported
C30_CompleteRunReached ==
    /\ RecordedThisRun
    /\ ReportedComplete
    /\ RetrainedThisRun
    /\ SavedThisRun
=============================================================================
